---------------------------- MODULE Spec2Model ----------------------------
(***************************************************************************)
(* Model of the mathematical expression analyzer: lexer (lexer.py), AST    *)
(* nodes (ast_nodes.py), parser (parser.py), polynomial normalizer         *)
(* (polynomial.py) and equivalence checker (equality.py).                  *)
(*                                                                         *)
(* Python values are modelled as follows.  A str that the code indexes is  *)
(* a sequence of one-character strings; a str that the code only builds    *)
(* and compares is a TLA+ string.  A token value is tagged with its type,  *)
(* <<"int", n>>, <<"str", s>> or <<"None">>.  A raised exception is a      *)
(* record field (raised / an error record), never a missing result.        *)
(***************************************************************************)
EXTENDS Integers, Sequences, FiniteSets, TLC

VARIABLES
    expression,   \* Lexer.expression: the input text
    pos,          \* Lexer.pos: 0-based scan position
    tokens,       \* Lexer.tokens: tokens appended so far
    lexState,     \* "scan" (inside tokenize), "done" (returned), "error" (raised)
    lexError,     \* the ValueError raised by tokenize, if any
    output,       \* the list tokenize returned, if any
    expr1,        \* first argument of the equivalence / normalizer calls
    expr2,        \* second argument of the equivalence calls
    call,         \* the entry point called last
    result,       \* what that call returned (or that it raised)
    counter,      \* AtomicExpr._counter
    made,         \* the AtomicExpr objects constructed so far, oldest first
    calls,        \* number of calls made so far
    poly,         \* a Polynomial object's terms
    lastOp,       \* the operation that built poly
    steps,        \* number of polynomial operations applied so far
    heap,         \* the dict and Polynomial objects allocated so far
    operands,     \* the Polynomial objects the last operation was applied to
    parserTokens, \* Parser.tokens: the token list given to the parser
    parserPos,    \* Parser.pos: 0-based index of the current token
    ast,          \* the node Parser.parse returned, if any
    parseState,   \* "new" (constructed), "done" (returned), "error" (raised)
    parseError,   \* the ValueError raised by Parser.parse, if any
    frames        \* the calls of the parser's methods in progress, innermost first

vars == <<expression, pos, tokens, lexState, lexError, output,
          expr1, expr2, call, result, counter, made, calls, poly, lastOp, steps, heap, operands,
          parserTokens, parserPos, ast, parseState, parseError, frames>>

lexVars == <<expression, pos, tokens, lexState, lexError, output>>
eqVars == <<expr1, expr2, call, result, counter, made, calls>>
polyVars == <<poly, lastOp, steps, heap, operands>>
parseVars == <<parserTokens, parserPos, ast, parseState, parseError, frames>>

(***************************************************************************)
(* Bounds of the model.                                                    *)
(***************************************************************************)
MaxLen == 3        \* longest input text given to tokenize, in lexemes
MaxNum == 2        \* largest integer literal in the ASTs given to the checker
MaxCalls == 1      \* calls made on one pair of expressions
MaxSteps == 3      \* polynomial operations applied in a row
MaxTokens == 4     \* longest token list given to the parser, EOF not counted
MaxInfix == 5      \* longest parenthesis-free token list given to the parser
MaxExponent == 4   \* largest literal exponent of the powers given to the normalizer
MaxSequence == 3   \* calls made one after another by one process
MaxOperations == 2 \* arithmetic operations applied to the Polynomial objects of a heap
MaxText == 3 \* longest text given to parse, in lexemes

(***************************************************************************)
(* Python values.                                                          *)
(***************************************************************************)
PyInt(n) == <<"int", n>>
PyStr(s) == <<"str", s>>
PyNone == <<"None">>

DigitChars == <<"0", "1", "2", "3", "4", "5", "6", "7", "8", "9">>

Digits == {DigitChars[i] : i \in 1..10}

Letters ==
    {"a", "b", "c", "d", "e", "f", "g", "h", "i", "j", "k", "l", "m",
     "n", "o", "p", "q", "r", "s", "t", "u", "v", "w", "x", "y", "z"}

Whitespace == {" "}

\* str.isdigit, str.isalpha, str.isspace on one character
IsDigit(ch) == ch \in Digits
IsAlpha(ch) == ch \in Letters
IsSpace(ch) == ch \in Whitespace

\* the value of a digit character
DigitValue(ch) == (CHOOSE i \in 1..10 : DigitChars[i] = ch) - 1

\* int(s) for a run of decimal digits
RECURSIVE IntOfDigits(_)
IntOfDigits(s) ==
    IF s = <<>> THEN 0
    ELSE 10 * IntOfDigits(SubSeq(s, 1, Len(s) - 1)) + DigitValue(s[Len(s)])

\* str(n) for an int
RECURSIVE StrOfNat(_)
StrOfNat(n) ==
    IF n < 10 THEN DigitChars[n + 1]
    ELSE StrOfNat(n \div 10) \o DigitChars[(n % 10) + 1]

StrOfInt(n) == IF n < 0 THEN "-" \o StrOfNat(-n) ELSE StrOfNat(n)

\* number of characters of str(n)
RECURSIVE LenStrOfNat(_)
LenStrOfNat(n) == IF n < 10 THEN 1 ELSE 1 + LenStrOfNat(n \div 10)

\* the str holding the characters of a slice of the input
RECURSIVE StrOfChars(_)
StrOfChars(s) == IF s = <<>> THEN "" ELSE s[1] \o StrOfChars(Tail(s))

(***************************************************************************)
(* lexer.py: tokens.                                                       *)
(***************************************************************************)
TokenType ==
    {"NUMBER", "VARIABLE", "PLUS", "MINUS", "MULTIPLY", "IMPLICIT_MULTIPLY",
     "DIVIDE", "POWER", "LPAREN", "RPAREN", "FUNCTION", "EOF"}

Token(type, value, at) == [type |-> type, value |-> value, pos |-> at]

FUNCTIONS == {"sin", "cos", "tan", "ln", "sqrt"}

NoError == [kind |-> "none", what |-> "", at |-> 0]

\* ValueError(f"Unexpected character '{ch}' at position {self.pos}")
UnexpectedCharacter(ch, at) == [kind |-> "unexpected_character", what |-> ch, at |-> at]

\* ValueError(f"Invalid identifier '{identifier}' at position {start}")
InvalidIdentifier(identifier, at) == [kind |-> "invalid_identifier", what |-> identifier, at |-> at]

\* the character at 0-based offset i of text e
CharAt(e, i) == e[i + 1]

\* the slice e[from:to] (0-based, end excluded)
Slice(e, from, to) == SubSeq(e, from + 1, to)

\* Lexer._skip_whitespace: the position after the whitespace starting at p
RECURSIVE SkipWhitespace(_, _)
SkipWhitespace(e, p) ==
    IF p < Len(e) /\ IsSpace(CharAt(e, p)) THEN SkipWhitespace(e, p + 1) ELSE p

\* the loop of Lexer._read_number: the position after the digits starting at p
RECURSIVE EndOfDigits(_, _)
EndOfDigits(e, p) ==
    IF p < Len(e) /\ IsDigit(CharAt(e, p)) THEN EndOfDigits(e, p + 1) ELSE p

\* the loop of Lexer._read_identifier: the position after the letters starting at p
RECURSIVE EndOfLetters(_, _)
EndOfLetters(e, p) ==
    IF p < Len(e) /\ IsAlpha(CharAt(e, p)) THEN EndOfLetters(e, p + 1) ELSE p

\* Lexer._read_number: the token appended and the new position
ReadNumber(e, start) ==
    LET end == EndOfDigits(e, start)
    IN  [raised |-> FALSE, error |-> NoError, pos |-> end,
         token |-> Token("NUMBER", PyInt(IntOfDigits(Slice(e, start, end))), start)]

\* fault: _read_identifier without the length test, every run of letters
\* that is no function name becoming a VARIABLE
ReadIdentifierAnyLength(e, start) ==
    LET end == EndOfLetters(e, start)
        identifier == StrOfChars(Slice(e, start, end))
    IN  [raised |-> FALSE, error |-> NoError, pos |-> end,
         token |-> Token(IF identifier \in FUNCTIONS THEN "FUNCTION" ELSE "VARIABLE",
                         PyStr(identifier), start)]

\* Lexer._read_identifier: the token appended and the new position, or the error
ReadIdentifier(e, start) ==
    LET end == EndOfLetters(e, start)
        identifier == StrOfChars(Slice(e, start, end))
    IN  IF identifier \in FUNCTIONS
        THEN [raised |-> FALSE, error |-> NoError, pos |-> end,
              token |-> Token("FUNCTION", PyStr(identifier), start)]
        ELSE IF end - start = 1
             THEN [raised |-> FALSE, error |-> NoError, pos |-> end,
                   token |-> Token("VARIABLE", PyStr(identifier), start)]
             ELSE [raised |-> TRUE, error |-> InvalidIdentifier(identifier, start),
                   pos |-> end, token |-> Token("EOF", PyNone, start)]

\* the token kind of a one-character operator or delimiter
OperatorType(ch) ==
    CASE ch = "+" -> "PLUS"
      [] ch = "-" -> "MINUS"
      [] ch = "*" -> "MULTIPLY"
      [] ch = "/" -> "DIVIDE"
      [] ch = "^" -> "POWER"
      [] ch = "(" -> "LPAREN"
      [] ch = ")" -> "RPAREN"

OperatorChars == {"+", "-", "*", "/", "^", "(", ")"}

\* one pass of the body of the scan loop at position p, after the whitespace
ScanOne(e, p) ==
    LET ch == CharAt(e, p)
    IN  IF IsDigit(ch) THEN ReadNumber(e, p)
        ELSE IF IsAlpha(ch) THEN ReadIdentifier(e, p)
        ELSE IF ch \in OperatorChars
             THEN [raised |-> FALSE, error |-> NoError, pos |-> p + 1,
                   token |-> Token(OperatorType(ch), PyStr(ch), p)]
             ELSE [raised |-> TRUE, error |-> UnexpectedCharacter(ch, p),
                   pos |-> p, token |-> Token("EOF", PyNone, p)]

\* truth value of a token value (0, "" and None are false)
Truthy(value) ==
    CASE value[1] = "int" -> value[2] # 0
      [] value[1] = "str" -> value[2] # ""
      [] OTHER -> FALSE

\* len(str(token.value))
LenStrOfValue(value) ==
    CASE value[1] = "int" -> LenStrOfNat(value[2])
      [] value[1] = "str" -> Len(value[2])
      [] OTHER -> 4

\* fault: the test of lines 136-148 with the same followers after every
\* kind, NUMBER left out after VARIABLE and RPAREN
ShouldInsertMultSameFollowers(token, next_token) ==
    /\ token.type \in {"NUMBER", "VARIABLE", "RPAREN"}
    /\ next_token.type \in {"VARIABLE", "FUNCTION", "LPAREN"}

\* the test of lines 136-148: whether a multiplication goes between two tokens
ShouldInsertMult(token, next_token) ==
    IF token.type = "NUMBER"
    THEN next_token.type \in {"VARIABLE", "FUNCTION", "LPAREN"}
    ELSE IF token.type = "VARIABLE"
         THEN next_token.type \in {"VARIABLE", "FUNCTION", "LPAREN", "NUMBER"}
         ELSE IF token.type = "RPAREN"
              THEN next_token.type \in {"VARIABLE", "FUNCTION", "LPAREN", "NUMBER"}
              ELSE FALSE

\* the position given to an inserted token (line 152)
ImplicitPos(token) ==
    IF Truthy(token.value) THEN token.pos + LenStrOfValue(token.value)
    ELSE token.pos + 1

\* Lexer._handle_implicit_multiplication, from index i (1-based) of toks on
RECURSIVE InsertFrom(_, _)
InsertFrom(toks, i) ==
    IF i > Len(toks) THEN <<>>
    ELSE LET token == toks[i]
             inserted ==
                 IF i < Len(toks) /\ ShouldInsertMult(token, toks[i + 1])
                 THEN <<Token("IMPLICIT_MULTIPLY", PyStr("*"), ImplicitPos(token))>>
                 ELSE <<>>
         IN  <<token>> \o inserted \o InsertFrom(toks, i + 1)

HandleImplicitMultiplication(toks) == InsertFrom(toks, 1)

(***************************************************************************)
(* The lexer as a state machine: one action per pass of the scan loop.     *)
(***************************************************************************)
\* the characters the input texts are drawn from
Alphabet == {"2", "x", "y", "l", "n", "+", "-", "*", "/", "^", "(", ")", " ", ".", "@"}

\* what the input texts are put together from: any one character, or the
\* function name "ln"
Lexemes == {<<c>> : c \in Alphabet} \cup {<<"l", "n">>}

RECURSIVE TextsOfLen(_)
TextsOfLen(n) ==
    IF n = 0 THEN {<<>>}
    ELSE {t \o l : t \in TextsOfLen(n - 1), l \in Lexemes}

\* the texts put together from at most n lexemes: every text of at most n
\* characters is one of them
TextsUpTo(n) == UNION {TextsOfLen(k) : k \in 0..n}

\* Lexer.__init__
LexerInit(text) ==
    /\ expression = text
    /\ pos = 0
    /\ tokens = <<>>
    /\ lexState = "scan"
    /\ lexError = NoError
    /\ output = <<>>

\* one pass of the while loop of Lexer.tokenize (lines 45-82)
ScanStep ==
    /\ lexState = "scan"
    /\ pos < Len(expression)
    /\ LET p == SkipWhitespace(expression, pos)
       IN  IF p >= Len(expression)
           THEN /\ pos' = p
                /\ UNCHANGED <<tokens, lexState, lexError>>
           ELSE LET r == ScanOne(expression, p)
                IN  IF r.raised
                    THEN /\ lexState' = "error"
                         /\ lexError' = r.error
                         /\ pos' = r.pos
                         /\ UNCHANGED tokens
                    ELSE /\ tokens' = Append(tokens, r.token)
                         /\ pos' = r.pos
                         /\ UNCHANGED <<lexState, lexError>>
    /\ UNCHANGED <<expression, output>>
    /\ UNCHANGED <<eqVars, polyVars, parseVars>>

\* the end of Lexer.tokenize (lines 84-85)
ScanFinish ==
    /\ lexState = "scan"
    /\ pos >= Len(expression)
    /\ tokens' = Append(tokens, Token("EOF", PyNone, pos))
    /\ output' = HandleImplicitMultiplication(tokens')
    /\ lexState' = "done"
    /\ UNCHANGED <<expression, pos, lexError>>
    /\ UNCHANGED <<eqVars, polyVars, parseVars>>

(***************************************************************************)
(* ast_nodes.py: the node classes.  Any other Python object is Object.     *)
(***************************************************************************)
Number(value) == [kind |-> "Number", value |-> value]
Variable(name) == [kind |-> "Variable", name |-> name]
BinOp(left, op, right) == [kind |-> "BinOp", left |-> left, op |-> op, right |-> right]
UnaryOp(op, operand) == [kind |-> "UnaryOp", op |-> op, operand |-> operand]
FunctionCall(func_name, arg) == [kind |-> "FunctionCall", func_name |-> func_name, arg |-> arg]
Object == [kind |-> "object"]

(***************************************************************************)
(* parser.py: Parser.  The recursive-descent methods are operators of the  *)
(* token list and the cursor; each returns the node and the cursor it      *)
(* leaves, or the ValueError it raised and the cursor at that moment.      *)
(***************************************************************************)
\* ValueError(f"Unexpected token: {self.current_token()}")
UnexpectedToken(token) == [kind |-> "unexpected_token", what |-> token.type, at |-> token.pos]

\* ValueError(f"Expected {expected_type}, got {token.type}")
ExpectedGot(expected_type, token) ==
    [kind |-> "expected_" \o expected_type, what |-> token.type, at |-> token.pos]

\* ValueError(f"Unexpected token in primary: {token}")
UnexpectedTokenInPrimary(token) ==
    [kind |-> "unexpected_token_in_primary", what |-> token.type, at |-> token.pos]

Parsed(node, p) == [raised |-> FALSE, error |-> NoError, node |-> node, pos |-> p]
ParseRaised(error, p) == [raised |-> TRUE, error |-> error, node |-> Object, pos |-> p]

\* Parser.current_token
CurrentToken(toks, p) == IF p < Len(toks) THEN toks[p + 1] ELSE toks[Len(toks)]

\* Parser.consume(expected_type) applied to the result r of the rule before it
ConsumeExpected(toks, r, expected_type) ==
    IF r.raised THEN r
    ELSE IF CurrentToken(toks, r.pos).type # expected_type
         THEN ParseRaised(ExpectedGot(expected_type, CurrentToken(toks, r.pos)), r.pos)
         ELSE Parsed(r.node, r.pos + 1)

\* FunctionCall(func_token.value, arg), arg being the result r of _parse_primary
FunctionCallOf(func_token, r) ==
    IF r.raised THEN r ELSE Parsed(FunctionCall(func_token.value[2], r.node), r.pos)

\* BinOp(left, '^', right), right being the result r of _parse_power
PowerOf(left, r) ==
    IF r.raised THEN r ELSE Parsed(BinOp(left, "^", r.node), r.pos)

\* BinOp(left, op, right) of the loop of _parse_term, IMPLICIT_MULTIPLY as '*'
TermOf(left, op_token, r) ==
    IF r.raised THEN r
    ELSE Parsed(BinOp(left,
                      IF op_token.type = "IMPLICIT_MULTIPLY" THEN "*" ELSE op_token.value[2],
                      r.node), r.pos)

\* UnaryOp('-', operand), operand being the result r of _parse_term
UnaryOf(r) ==
    IF r.raised THEN r ELSE Parsed(UnaryOp("-", r.node), r.pos)

\* a leading minus that builds a UnaryOp node, as _parse_unary does
LeadingMinusAsUnaryOp(r) == UnaryOf(r)

\* BinOp(Number(0), '-', right), right being the result r of _parse_unary
LeadingMinusOf(r) ==
    IF r.raised THEN r ELSE Parsed(BinOp(Number(0), "-", r.node), r.pos)

\* BinOp(left, op.value, right) of the loop of _parse_expression
ExpressionOf(left, op_token, r) ==
    IF r.raised THEN r ELSE Parsed(BinOp(left, op_token.value[2], r.node), r.pos)

RECURSIVE ParseExpression(_, _)
RECURSIVE ExpressionLoop(_, _)
RECURSIVE ParseTerm(_, _)
RECURSIVE TermLoop(_, _)
RECURSIVE ParsePower(_, _)
RECURSIVE PowerTail(_, _)
RECURSIVE ParseFunction(_, _)
RECURSIVE ParseUnary(_, _)
RECURSIVE ParsePrimary(_, _)

\* Parser._parse_primary
ParsePrimary(toks, p) ==
    IF CurrentToken(toks, p).type = "NUMBER"
    THEN Parsed(Number(CurrentToken(toks, p).value[2]), p + 1)
    ELSE IF CurrentToken(toks, p).type = "VARIABLE"
    THEN Parsed(Variable(CurrentToken(toks, p).value[2]), p + 1)
    ELSE IF CurrentToken(toks, p).type = "LPAREN"
    THEN ConsumeExpected(toks, ParseExpression(toks, p + 1), "RPAREN")
    ELSE ParseRaised(UnexpectedTokenInPrimary(CurrentToken(toks, p)), p)

\* a function that takes a whole power as its argument
ParseFunctionOfPower(toks, p) ==
    IF CurrentToken(toks, p).type = "FUNCTION"
    THEN FunctionCallOf(CurrentToken(toks, p), ParsePower(toks, p + 1))
    ELSE ParsePrimary(toks, p)

\* Parser._parse_function
ParseFunction(toks, p) ==
    IF CurrentToken(toks, p).type = "FUNCTION"
    THEN FunctionCallOf(CurrentToken(toks, p), ParsePrimary(toks, p + 1))
    ELSE ParsePrimary(toks, p)

\* a left-associative power: the right operand read by _parse_function, in a loop
RECURSIVE PowerTailLeftAssociative(_, _)
PowerTailLeftAssociative(toks, l) ==
    IF l.raised THEN l
    ELSE IF CurrentToken(toks, l.pos).type = "POWER"
         THEN PowerTailLeftAssociative(toks, PowerOf(l.node, ParseFunction(toks, l.pos + 1)))
         ELSE l

\* a power whose exponent may carry a sign: the right operand read by _parse_unary
PowerTailSignedExponent(toks, l) ==
    IF l.raised THEN l
    ELSE IF CurrentToken(toks, l.pos).type = "POWER"
         THEN PowerOf(l.node, ParseUnary(toks, l.pos + 1))
         ELSE l

\* Parser._parse_power after left = self._parse_function() gave l
PowerTail(toks, l) ==
    IF l.raised THEN l
    ELSE IF CurrentToken(toks, l.pos).type = "POWER"
         THEN PowerOf(l.node, ParsePower(toks, l.pos + 1))
         ELSE l

\* _parse_power with the exponent read one level up, where a minus is taken
ParsePowerNegativeExponent(toks, p) == PowerTailSignedExponent(toks, ParseFunction(toks, p))

\* Parser._parse_power
ParsePower(toks, p) == PowerTail(toks, ParseFunction(toks, p))

\* a loop of _parse_term that takes the written operators only
RECURSIVE TermLoopExplicitOnly(_, _)
TermLoopExplicitOnly(toks, l) ==
    IF l.raised THEN l
    ELSE IF CurrentToken(toks, l.pos).type \in {"MULTIPLY", "DIVIDE"}
         THEN TermLoopExplicitOnly(toks, TermOf(l.node, CurrentToken(toks, l.pos),
                                                ParsePower(toks, l.pos + 1)))
         ELSE l

\* the while loop of Parser._parse_term, l being the left operand so far
TermLoop(toks, l) ==
    IF l.raised THEN l
    ELSE IF CurrentToken(toks, l.pos).type \in {"MULTIPLY", "IMPLICIT_MULTIPLY", "DIVIDE"}
         THEN TermLoop(toks, TermOf(l.node, CurrentToken(toks, l.pos),
                                    ParsePower(toks, l.pos + 1)))
         ELSE l

\* Parser._parse_term
ParseTerm(toks, p) == TermLoop(toks, ParsePower(toks, p))

\* Parser._parse_unary
ParseUnary(toks, p) ==
    IF CurrentToken(toks, p).type = "MINUS"
    THEN UnaryOf(ParseTerm(toks, p + 1))
    ELSE ParseTerm(toks, p)

\* the while loop of Parser._parse_expression, l being the left operand so far
ExpressionLoop(toks, l) ==
    IF l.raised THEN l
    ELSE IF CurrentToken(toks, l.pos).type \in {"PLUS", "MINUS"}
         THEN ExpressionLoop(toks, ExpressionOf(l.node, CurrentToken(toks, l.pos),
                                                ParseUnary(toks, l.pos + 1)))
         ELSE l

\* Parser._parse_expression
ParseExpression(toks, p) ==
    ExpressionLoop(toks, IF CurrentToken(toks, p).type = "MINUS"
                         THEN LeadingMinusOf(ParseUnary(toks, p + 1))
                         ELSE ParseUnary(toks, p))

\* an end of Parser.parse that returns the expression whatever follows it
IgnoreRest(toks, r) == r

\* the end of Parser.parse: every token up to EOF must have been consumed
ExpectEOF(toks, r) ==
    IF r.raised THEN r
    ELSE IF CurrentToken(toks, r.pos).type # "EOF"
         THEN ParseRaised(UnexpectedToken(CurrentToken(toks, r.pos)), r.pos)
         ELSE r

\* Parser.parse on a parser constructed on toks (pos = 0)
ParserParse(toks) == ExpectEOF(toks, ParseExpression(toks, 0))

\* Parser.__init__
ParserInit(toks) ==
    /\ parserTokens = toks
    /\ parserPos = 0
    /\ ast = Object
    /\ parseState = "new"
    /\ parseError = NoError
    /\ frames = <<>>

\* Parser.parse
CallParse ==
    /\ parseState = "new"
    /\ \E r \in {ParserParse(parserTokens)} :
          /\ parserPos' = r.pos
          /\ ast' = r.node
          /\ parseState' = IF r.raised THEN "error" ELSE "done"
          /\ parseError' = r.error
    /\ UNCHANGED <<parserTokens, frames>>
    /\ UNCHANGED <<lexVars, eqVars, polyVars>>

(***************************************************************************)
(* polynomial.py: Polynomial.  The terms dict is a function from monomials *)
(* to integers; a monomial (a frozenset of (var, power) tuples) is a set   *)
(* of pairs <<symbol, power>>.  A symbol is <<"var", name>> for a variable *)
(* name and <<"atom", expr_str>> for an AtomicExpr, which __eq__ and       *)
(* __hash__ identify by expr_str alone.                                    *)
(***************************************************************************)
\* fault: "self._counter += 1", which leaves the class attribute alone
AtomicExprInitOwnCounter(expr_str, c) ==
    [atomic |-> [expr_str |-> expr_str, id |-> c], counter |-> c]

\* AtomicExpr.__init__ with AtomicExpr._counter at c: the object and the
\* counter afterwards
AtomicExprInit(expr_str, c) ==
    [atomic |-> [expr_str |-> expr_str, id |-> c], counter |-> c + 1]

\* fault: no __eq__, objects compared by identity
AtomicEqIdentity(a, b) == a.id = b.id

\* AtomicExpr.__eq__ and __hash__
AtomicEq(a, b) == a.expr_str = b.expr_str
AtomicHash(a) == <<"AtomicExpr", a.expr_str>>

\* the class counter and the objects of the process
Process(c, objects) == [counter |-> c, made |-> objects]

\* the process after AtomicExpr(node, expr_str) for each of strs in turn
RECURSIVE Constructed(_, _)
Constructed(strs, process) ==
    IF strs = <<>> THEN process
    ELSE LET new == AtomicExprInit(Head(strs), process.counter)
         IN  Constructed(Tail(strs), Process(new.counter, Append(process.made, new.atomic)))

VarSymbol(name) == <<"var", name>>
AtomSymbol(expr_str) == <<"atom", expr_str>>

EmptyTerms == [m \in {} |-> 0]

\* dict.get(m, 0)
Get(terms, m) == IF m \in DOMAIN terms THEN terms[m] ELSE 0

\* fault: _normalize keeping every term
PolyNormalizeKeepsAll(terms) == terms

\* Polynomial._normalize: remove zero terms
PolyNormalize(terms) ==
    [m \in {k \in DOMAIN terms : terms[k] # 0} |-> terms[m]]

\* Polynomial.__init__: the terms of Polynomial(terms)
Polynomial(terms) == PolyNormalize(terms)

\* Polynomial.__eq__
PolyEq(p, q) == p = q

\* Polynomial.__add__
PolyAdd(p, q) ==
    Polynomial([m \in DOMAIN p \cup DOMAIN q |-> Get(p, m) + Get(q, m)])

\* Polynomial.__sub__
PolySub(p, q) ==
    Polynomial([m \in DOMAIN p \cup DOMAIN q |-> Get(p, m) - Get(q, m)])

\* Polynomial.__neg__
PolyNeg(p) == Polynomial([m \in DOMAIN p |-> -p[m]])

RECURSIVE SumOfPowers(_)
SumOfPowers(pairs) ==
    IF pairs = {} THEN 0
    ELSE LET x == CHOOSE x \in pairs : TRUE
         IN  x[2] + SumOfPowers(pairs \ {x})

\* fault: the pairs of both monomials put together, no power added
CombineMonomialsUnion(m1, m2) == m1 \cup m2

\* Polynomial._combine_monomials: the powers of each symbol added
CombineMonomials(m1, m2) ==
    LET symbols == {sp[1] : sp \in m1 \cup m2}
        powerIn(m, v) == SumOfPowers({sp \in m : sp[1] = v})
    IN  {<<v, powerIn(m1, v) + powerIn(m2, v)>> : v \in symbols}

RECURSIVE SumOfProducts(_, _, _)
SumOfProducts(p, q, pairs) ==
    IF pairs = {} THEN 0
    ELSE LET x == CHOOSE x \in pairs : TRUE
         IN  p[x[1]] * q[x[2]] + SumOfProducts(p, q, pairs \ {x})

\* fault: __mul__ storing each product instead of adding it to the entry
PolyMulOverwrites(p, q) ==
    LET pairs == (DOMAIN p) \X (DOMAIN q)
        combined == {CombineMonomials(x[1], x[2]) : x \in pairs}
    IN  Polynomial([m \in combined |->
            LET x == CHOOSE x \in pairs : CombineMonomials(x[1], x[2]) = m
            IN  p[x[1]] * q[x[2]]])

\* Polynomial.__mul__
PolyMul(p, q) ==
    LET pairs == (DOMAIN p) \X (DOMAIN q)
        combined == {CombineMonomials(x[1], x[2]) : x \in pairs}
    IN  Polynomial([m \in combined |->
            SumOfProducts(p, q, {x \in pairs : CombineMonomials(x[1], x[2]) = m})])

(***************************************************************************)
(* polynomial.py: Polynomial objects and their dicts as objects of a heap. *)
(* dicts[a] is the content of the dict at address a, polys[i] the address  *)
(* of the dict that the terms attribute of the i-th Polynomial refers to.  *)
(***************************************************************************)
EmptyHeap == [dicts |-> <<>>, polys |-> <<>>]

\* a new dict holding terms
NewDict(h, terms) ==
    [heap |-> [h EXCEPT !.dicts = Append(@, terms)], at |-> Len(h.dicts) + 1]

\* fault: "result = self.terms", the operand's own dict
DictShared(h, a) == [heap |-> h, at |-> a]

\* result = dict(self.terms)
DictCopy(h, a) == NewDict(h, h.dicts[a])

TermsOf(h, i) == h.dicts[h.polys[i]]

\* Polynomial(terms) for the dict at a: "self.terms = terms if terms else
\* {}", then _normalize binds self.terms to a new dict
PolynomialNew(h, a) ==
    LET given == IF h.dicts[a] = EmptyTerms THEN NewDict(h, EmptyTerms)
                 ELSE [heap |-> h, at |-> a]
        kept == NewDict(given.heap, PolyNormalize(given.heap.dicts[given.at]))
    IN  [kept.heap EXCEPT !.polys = Append(@, kept.at)]

\* Polynomial({...}) for a dict display
PolynomialOf(h, terms) ==
    LET d == NewDict(h, terms) IN PolynomialNew(d.heap, d.at)

\* for monomial, coeff in other.terms.items():
\*     result[monomial] = result.get(monomial, 0) + sign * coeff
\* with result the dict at target
Accumulated(h, target, other, sign) ==
    [h EXCEPT !.dicts[target] =
        [m \in DOMAIN h.dicts[target] \cup DOMAIN h.dicts[other] |->
            IF m \in DOMAIN h.dicts[other]
            THEN Get(h.dicts[target], m) + sign * h.dicts[other][m]
            ELSE h.dicts[target][m]]]

\* Polynomial.__add__ and __sub__ on the objects i and j
PolynomialAdd(h, i, j) ==
    LET copy == DictCopy(h, h.polys[i])
    IN  PolynomialNew(Accumulated(copy.heap, copy.at, h.polys[j], 1), copy.at)

PolynomialSub(h, i, j) ==
    LET copy == DictCopy(h, h.polys[i])
    IN  PolynomialNew(Accumulated(copy.heap, copy.at, h.polys[j], -1), copy.at)

\* Polynomial.__mul__: result = {}, filled product by product
PolynomialMul(h, i, j) ==
    LET p == TermsOf(h, i)
        q == TermsOf(h, j)
        pairs == (DOMAIN p) \X (DOMAIN q)
        combined == {CombineMonomials(x[1], x[2]) : x \in pairs}
        product == NewDict(h, [m \in combined |->
                      SumOfProducts(p, q, {x \in pairs : CombineMonomials(x[1], x[2]) = m})])
    IN  PolynomialNew(product.heap, product.at)

\* Polynomial.__neg__
PolynomialNeg(h, i) ==
    PolynomialOf(h, [m \in DOMAIN TermsOf(h, i) |-> -TermsOf(h, i)[m]])

(***************************************************************************)
(* polynomial.py: the canonical string of a subtree.                       *)
(***************************************************************************)
\* the precedence table of needs_parens
Precedence == [op \in {"+", "-", "*", "/", "^"} |->
                  IF op \in {"+", "-"} THEN 1 ELSE IF op \in {"*", "/"} THEN 2 ELSE 3]

\* needs_parens(op, parent_op)
NeedsParens(op, parent_op) ==
    IF op \notin DOMAIN Precedence \/ parent_op \notin DOMAIN Precedence
    THEN FALSE
    ELSE Precedence[op] < Precedence[parent_op]

\* ast_to_string(node, parent_op); parent_op None is "".  The third
\* parameter, is_right_of_power, is never read by the code.
RECURSIVE AstToString(_, _)
AstToString(node, parent_op) ==
    CASE node.kind = "Number" -> StrOfInt(node.value)
      [] node.kind = "Variable" -> node.name
      [] node.kind = "BinOp" ->
            LET left_str == AstToString(node.left, node.op)
                right_raw == AstToString(node.right, node.op)
                right_str ==
                    IF node.op = "^" /\ node.right.kind = "BinOp" /\ node.right.op = "^"
                    THEN "(" \o right_raw \o ")"
                    ELSE right_raw
                res == left_str \o node.op \o right_str
            IN  IF parent_op # "" /\ NeedsParens(node.op, parent_op)
                THEN "(" \o res \o ")"
                ELSE res
      [] node.kind = "UnaryOp" -> node.op \o AstToString(node.operand, node.op)
      [] node.kind = "FunctionCall" ->
            node.func_name \o "(" \o AstToString(node.arg, "") \o ")"
      [] OTHER -> "<object>"

\* is_expandable
RECURSIVE IsExpandable(_)
IsExpandable(node) ==
    CASE node.kind \in {"Number", "Variable"} -> TRUE
      [] node.kind = "UnaryOp" -> node.op = "-" /\ IsExpandable(node.operand)
      [] node.kind = "BinOp" ->
            node.op \in {"+", "-", "*"} /\ IsExpandable(node.left) /\ IsExpandable(node.right)
      [] OTHER -> FALSE

(***************************************************************************)
(* polynomial.py: expand_to_polynomial.  The result records whether the    *)
(* call raised, the terms of the Polynomial returned, and the expr_str of   *)
(* the AtomicExpr objects constructed on the way, in the order of their    *)
(* construction (each takes one id from AtomicExpr._counter).              *)
(***************************************************************************)
Returned(terms, atoms) == [raised |-> FALSE, terms |-> terms, atoms |-> atoms]
Raised(atoms) == [raised |-> TRUE, terms |-> EmptyTerms, atoms |-> atoms]

\* Polynomial({frozenset([(atomic, 1)]): 1}) for the atom of a node
AtomPolynomial(node) ==
    Polynomial([m \in {{<<AtomSymbol(AstToString(node, "")), 1>>}} |-> 1])

\* result = base; for _ in range(n - 1): result = result * base
RECURSIVE PowerByMultiplication(_, _)
PowerByMultiplication(base, n) ==
    IF n <= 1 THEN base ELSE PolyMul(PowerByMultiplication(base, n - 1), base)

\* left = expand(node.left); right = expand(node.right); return left <op> right
ExpandBinary(op, l, r) ==
    IF l.raised THEN Raised(l.atoms)
    ELSE IF r.raised THEN Raised(l.atoms \o r.atoms)
         ELSE Returned(CASE op = "+" -> PolyAdd(l.terms, r.terms)
                         [] op = "-" -> PolySub(l.terms, r.terms)
                         [] op = "*" -> PolyMul(l.terms, r.terms),
                       l.atoms \o r.atoms)

\* fault: no branch for '/', the operator falling to "Unsupported operator"
ExpandDivisionUnsupported(node) == Raised(<<>>)

\* the branch of expand_to_polynomial for '/' (lines 294-298)
ExpandDivision(node) == Returned(AtomPolynomial(node), <<AstToString(node, "")>>)

RECURSIVE ExpandToPolynomial(_)
ExpandToPolynomial(node) ==
    CASE node.kind = "Number" ->
            IF node.value = 0 THEN Returned(Polynomial(EmptyTerms), <<>>)
            ELSE Returned(Polynomial([m \in {{}} |-> node.value]), <<>>)
      [] node.kind = "Variable" ->
            Returned(Polynomial([m \in {{<<VarSymbol(node.name), 1>>}} |-> 1]), <<>>)
      [] node.kind = "UnaryOp" ->
            IF node.op = "-"
            THEN LET x == ExpandToPolynomial(node.operand)
                 IN  IF x.raised THEN x ELSE Returned(PolyNeg(x.terms), x.atoms)
            ELSE Raised(<<>>)
      [] node.kind = "BinOp" ->
            CASE node.op \in {"+", "-", "*"} ->
                    ExpandBinary(node.op, ExpandToPolynomial(node.left),
                                 ExpandToPolynomial(node.right))
              [] node.op = "^" ->
                    IF node.right.kind = "Number" /\ node.right.value \in {2, 3}
                    THEN LET base == ExpandToPolynomial(node.left)
                         IN  IF base.raised THEN base
                             ELSE Returned(PowerByMultiplication(base.terms, node.right.value),
                                           base.atoms)
                    ELSE Returned(AtomPolynomial(node), <<AstToString(node, "")>>)
              [] node.op = "/" -> ExpandDivision(node)
              [] OTHER -> Raised(<<>>)
      [] node.kind = "FunctionCall" -> Returned(AtomPolynomial(node), <<AstToString(node, "")>>)
      [] OTHER -> Raised(<<>>)

\* normalize_expression
NormalizeExpression(node) == ExpandToPolynomial(node)

(***************************************************************************)
(* equality.py.  Every result records the AtomicExpr objects constructed   *)
(* during the call; raised says that an exception left the call.           *)
(***************************************************************************)
RationalOf(num, den) == [raised |-> FALSE, num |-> num, den |-> den]
RationalRaised == [raised |-> TRUE, num |-> Object, den |-> Object]

\* simplify_to_rational
RECURSIVE SimplifyToRational(_)
SimplifyToRational(node) ==
    CASE node.kind \in {"Number", "Variable"} -> RationalOf(node, Number(1))
      [] node.kind = "UnaryOp" ->
            IF node.op = "-"
            THEN LET x == SimplifyToRational(node.operand)
                 IN  IF x.raised THEN RationalRaised
                     ELSE RationalOf(UnaryOp("-", x.num), x.den)
            ELSE RationalRaised
      [] node.kind = "BinOp" ->
            IF node.op \in {"+", "-", "*", "/"}
            THEN LET l == SimplifyToRational(node.left)
                     r == SimplifyToRational(node.right)
                 IN  IF l.raised \/ r.raised THEN RationalRaised
                     ELSE CASE node.op \in {"+", "-"} ->
                                 RationalOf(BinOp(BinOp(l.num, "*", r.den), node.op,
                                                  BinOp(r.num, "*", l.den)),
                                            BinOp(l.den, "*", r.den))
                            [] node.op = "*" ->
                                 RationalOf(BinOp(l.num, "*", r.num), BinOp(l.den, "*", r.den))
                            [] node.op = "/" ->
                                 RationalOf(BinOp(l.num, "*", r.den), BinOp(l.den, "*", r.num))
            ELSE IF node.op = "^" THEN RationalOf(node, Number(1))
                 ELSE RationalRaised
      [] node.kind = "FunctionCall" -> RationalOf(node, Number(1))
      [] OTHER -> RationalRaised

\* the comparison poly1 == poly2 of two normalizations made one after the
\* other: the second is not made when the first raised
ComparePolynomials(p1, p2) ==
    IF p1.raised THEN [raised |-> TRUE, equal |-> FALSE, atoms |-> p1.atoms]
    ELSE IF p2.raised THEN [raised |-> TRUE, equal |-> FALSE, atoms |-> p1.atoms \o p2.atoms]
         ELSE [raised |-> FALSE, equal |-> PolyEq(p1.terms, p2.terms),
               atoms |-> p1.atoms \o p2.atoms]

\* "poly1 = normalize_expression(a); poly2 = normalize_expression(b)" and
\* the comparison poly1 == poly2, as they stand inside each try block
NormalizeBoth(a, b) == ComparePolynomials(NormalizeExpression(a), NormalizeExpression(b))

\* fault: the try block without its except clause, the exception leaving
\* the function
WithoutExcept(n) == [raised |-> n.raised, proved |-> (~n.raised /\ n.equal), atoms |-> n.atoms]

\* "except Exception: pass" around NormalizeBoth: proved says that the try
\* block returned True; an exception is swallowed
Swallow(n) == [raised |-> FALSE, proved |-> (~n.raised /\ n.equal), atoms |-> n.atoms]

\* try: ...; if poly1 == poly2: return True / except Exception: pass
TryPolynomial(a, b) == Swallow(NormalizeBoth(a, b))

Verdict(value, atoms) == [raised |-> FALSE, value |-> value, atoms |-> atoms]
Propagated(atoms) == [raised |-> TRUE, value |-> FALSE, atoms |-> atoms]

\* "x and y" on two calls of ast_equal: y is evaluated only if x is true
AndThen(x, y) ==
    IF x.raised THEN x
    ELSE IF ~x.value THEN x
         ELSE [raised |-> y.raised, value |-> y.value, atoms |-> x.atoms \o y.atoms]

\* the result of a call made after `before` AtomicExpr objects were constructed
After(before, x) == [raised |-> x.raised, value |-> x.value, atoms |-> before \o x.atoms]

\* fault: the swapped comparison made for every operator
OperandsEqualAnyOperator(op, direct, swapped) ==
    IF direct.raised \/ direct.value THEN direct
    ELSE After(direct.atoms, swapped)

\* lines 146-155: the direct comparison of the operands, then the swapped
\* one for '+' and '*'
OperandsEqual(op, direct, swapped) ==
    IF direct.raised \/ direct.value THEN direct
    ELSE IF op \in {"+", "*"} THEN After(direct.atoms, swapped)
         ELSE Verdict(FALSE, direct.atoms)

RECURSIVE AstEqual(_, _)

\* lines 129-161 of ast_equal: the structural comparison made when the try
\* block (whose result is t) did not return
StructurallyEqual(node1, node2, t) ==
    IF t.raised THEN Propagated(t.atoms)
    ELSE IF t.proved THEN Verdict(TRUE, t.atoms)
    ELSE IF node1.kind # node2.kind THEN Verdict(FALSE, t.atoms)
    ELSE CASE node1.kind = "Number" -> Verdict(node1.value = node2.value, t.atoms)
           [] node1.kind = "Variable" -> Verdict(node1.name = node2.name, t.atoms)
           [] node1.kind = "UnaryOp" ->
                 IF node1.op = node2.op
                 THEN After(t.atoms, AstEqual(node1.operand, node2.operand))
                 ELSE Verdict(FALSE, t.atoms)
           [] node1.kind = "BinOp" ->
                 IF node1.op # node2.op THEN Verdict(FALSE, t.atoms)
                 ELSE After(t.atoms,
                            OperandsEqual(node1.op,
                                          AndThen(AstEqual(node1.left, node2.left),
                                                  AstEqual(node1.right, node2.right)),
                                          AndThen(AstEqual(node1.left, node2.right),
                                                  AstEqual(node1.right, node2.left))))
           [] node1.kind = "FunctionCall" ->
                 IF node1.func_name = node2.func_name
                 THEN After(t.atoms, AstEqual(node1.arg, node2.arg))
                 ELSE Verdict(FALSE, t.atoms)
           [] OTHER -> Verdict(FALSE, t.atoms)

\* ast_equal
AstEqual(node1, node2) == StructurallyEqual(node1, node2, TryPolynomial(node1, node2))

\* fault: the numerators compared without the denominators
CrossMultiplyNumerators(r1, r2) ==
    IF r1.raised \/ r2.raised THEN [raised |-> TRUE, equal |-> FALSE, atoms |-> <<>>]
    ELSE NormalizeBoth(r1.num, r2.num)

\* lines 204-215 and 248-260: the cross products normalized and compared
CrossMultiply(r1, r2) ==
    IF r1.raised \/ r2.raised THEN [raised |-> TRUE, equal |-> FALSE, atoms |-> <<>>]
    ELSE NormalizeBoth(BinOp(r1.num, "*", r2.den), BinOp(r2.num, "*", r1.den))

\* how the rational stage ended: simplify_to_rational raised (the outer
\* except), a normalization raised (the inner except), or the cross
\* products were compared
RationalOutcome(r1, r2, n) ==
    IF r1.raised \/ r2.raised
    THEN [ended |-> "simplify_raised", equal |-> FALSE, atoms |-> <<>>]
    ELSE IF n.raised
         THEN [ended |-> "normalize_raised", equal |-> FALSE, atoms |-> n.atoms]
         ELSE [ended |-> "compared", equal |-> n.equal, atoms |-> n.atoms]

\* the rational stage (lines 196-218 and 243-263)
RationalStageOf(r1, r2) == RationalOutcome(r1, r2, CrossMultiply(r1, r2))
RationalStage(a, b) == RationalStageOf(SimplifyToRational(a), SimplifyToRational(b))

\* fault: are_equivalent giving up after the structural comparison
EquivalentByTwoStages(s1, s2, s3) ==
    IF s1.raised THEN Propagated(s1.atoms)
    ELSE IF s1.proved THEN Verdict(TRUE, s1.atoms)
    ELSE IF s2.raised THEN Propagated(s1.atoms \o s2.atoms)
    ELSE Verdict(s2.value, s1.atoms \o s2.atoms)

\* the cascade of are_equivalent on the results of its three stages; a stage
\* is evaluated only when the ones before it did not return
EquivalentBy(s1, s2, s3) ==
    IF s1.raised THEN Propagated(s1.atoms)
    ELSE IF s1.proved THEN Verdict(TRUE, s1.atoms)
    ELSE IF s2.raised THEN Propagated(s1.atoms \o s2.atoms)
    ELSE IF s2.value THEN Verdict(TRUE, s1.atoms \o s2.atoms)
    ELSE Verdict(s3.ended = "compared" /\ s3.equal, s1.atoms \o s2.atoms \o s3.atoms)

\* are_equivalent
AreEquivalent(a, b) ==
    EquivalentBy(TryPolynomial(a, b), AstEqual(a, b), RationalStage(a, b))

VerboseVerdict(value, method, details, atoms) ==
    [raised |-> FALSE, value |-> value, method |-> method, details |-> details,
     atoms |-> atoms]
VerbosePropagated(atoms) ==
    [raised |-> TRUE, value |-> FALSE, method |-> "", details |-> "", atoms |-> atoms]

\* what the rational stage of check_equivalence_verbose returns
VerboseRational(s3, atoms) ==
    CASE s3.ended = "simplify_raised" -> VerboseVerdict(FALSE, "error", "str(e)", atoms)
      [] s3.ended = "normalize_raised" ->
            VerboseVerdict(FALSE, "rational", "Could not normalize", atoms)
      [] s3.ended = "compared" /\ s3.equal ->
            VerboseVerdict(TRUE, "rational", "Cross-multiplication", atoms)
      [] OTHER -> VerboseVerdict(FALSE, "rational", "Cross-multiplication differs", atoms)

\* fault: check_equivalence_verbose trying the structural comparison first
VerboseByStructuralFirst(s1, s2, s3) ==
    IF s2.raised THEN VerbosePropagated(s2.atoms)
    ELSE IF s2.value
         THEN VerboseVerdict(TRUE, "structural", "Structurally equivalent", s2.atoms)
         ELSE IF s1.raised THEN VerbosePropagated(s2.atoms \o s1.atoms)
         ELSE IF s1.proved
              THEN VerboseVerdict(TRUE, "polynomial", "poly1 = poly2", s2.atoms \o s1.atoms)
              ELSE VerboseRational(s3, s2.atoms \o s1.atoms \o s3.atoms)

\* the cascade of check_equivalence_verbose on the results of its three
\* stages; details names the message that is formatted, not its text
VerboseBy(s1, s2, s3) ==
    IF s1.raised THEN VerbosePropagated(s1.atoms)
    ELSE IF s1.proved THEN VerboseVerdict(TRUE, "polynomial", "poly1 = poly2", s1.atoms)
    ELSE IF s2.raised THEN VerbosePropagated(s1.atoms \o s2.atoms)
    ELSE IF s2.value
         THEN VerboseVerdict(TRUE, "structural", "Structurally equivalent",
                             s1.atoms \o s2.atoms)
         ELSE VerboseRational(s3, s1.atoms \o s2.atoms \o s3.atoms)

\* check_equivalence_verbose
CheckEquivalenceVerbose(a, b) ==
    VerboseBy(TryPolynomial(a, b), AstEqual(a, b), RationalStage(a, b))

(***************************************************************************)
(* The components as state machines.  Each specification draws its input   *)
(* in its initial state and leaves the other components idle.              *)
(***************************************************************************)
LexerIdle ==
    /\ expression = <<>>
    /\ pos = 0
    /\ tokens = <<>>
    /\ lexState = "idle"
    /\ lexError = NoError
    /\ output = <<>>

NoResult == [raised |-> FALSE, value |-> FALSE, method |-> "", details |-> "",
             terms |-> EmptyTerms]

CheckerIdle ==
    /\ expr1 = Object
    /\ expr2 = Object
    /\ call = "idle"
    /\ result = NoResult
    /\ counter = 0
    /\ made = <<>>
    /\ calls = 0

PolynomialIdle ==
    /\ poly = EmptyTerms
    /\ lastOp = "idle"
    /\ steps = 0
    /\ heap = EmptyHeap
    /\ operands = <<>>

ParserIdle ==
    /\ parserTokens = <<>>
    /\ parserPos = 0
    /\ ast = Object
    /\ parseState = "idle"
    /\ parseError = NoError
    /\ frames = <<>>

(***************************************************************************)
(* The lexer.                                                              *)
(***************************************************************************)
InitLexer ==
    (\E text \in TextsUpTo(MaxLen) : LexerInit(text)) /\ CheckerIdle /\ PolynomialIdle
    /\ ParserIdle

NextLexer == ScanStep \/ ScanFinish

SpecLexer == InitLexer /\ [][NextLexer]_vars

(***************************************************************************)
(* The equivalence checker and the normalizer, called on expressions of    *)
(* the shapes the parser builds: a UnaryOp only as the right operand of a  *)
(* '+' or '-', non-negative numbers, one-letter variables.                 *)
(***************************************************************************)
VarNames == {"x", "y"}
FuncNames == {"sin", "cos"}
BinaryOps == {"+", "-", "*", "/", "^"}

VarLeaves == {Variable(v) : v \in VarNames}
Leaves == {Number(n) : n \in 0..MaxNum} \cup VarLeaves

\* one operator over leaves, or one function of a variable
Asts1 ==
    Leaves
    \cup {BinOp(l, op, r) : l \in Leaves, op \in BinaryOps, r \in Leaves}
    \cup {FunctionCall(f, l) : f \in FuncNames, l \in VarLeaves}

\* two operators over variables: a nest of one operator in both
\* groupings, a function of a sum or difference, a negated right operand
Asts2 ==
    {BinOp(a, op, BinOp(b, op, c)) : a \in VarLeaves, b \in VarLeaves, c \in VarLeaves,
                                     op \in BinaryOps}
    \cup {BinOp(BinOp(a, op, b), op, c) : a \in VarLeaves, b \in VarLeaves, c \in VarLeaves,
                                          op \in BinaryOps}
    \cup {FunctionCall(f, BinOp(a, op, b)) : f \in FuncNames, a \in VarLeaves,
                                             b \in VarLeaves, op \in {"+", "-"}}
    \cup {BinOp(a, op, UnaryOp("-", b)) : a \in VarLeaves, b \in VarLeaves, op \in {"+", "-"}}

ParsedAsts == Asts1 \cup Asts2

CheckerInit(a, b) ==
    /\ expr1 = a
    /\ expr2 = b
    /\ call = "none"
    /\ result = NoResult
    /\ counter = 0
    /\ made = <<>>
    /\ calls = 0

\* a call of are_equivalent(expr1, expr2)
CallAreEquivalent ==
    /\ call # "idle"
    /\ calls < MaxCalls
    /\ \E r \in {AreEquivalent(expr1, expr2)} :
           /\ result' = [NoResult EXCEPT !.raised = r.raised, !.value = r.value]
           /\ \E process \in {Constructed(r.atoms, Process(counter, made))} :
                  counter' = process.counter /\ made' = process.made
    /\ call' = "are_equivalent"
    /\ calls' = calls + 1
    /\ UNCHANGED <<expr1, expr2>>
    /\ UNCHANGED <<lexVars, polyVars, parseVars>>

\* a call of check_equivalence_verbose(expr1, expr2)
CallCheckEquivalenceVerbose ==
    /\ call # "idle"
    /\ calls < MaxCalls
    /\ \E r \in {CheckEquivalenceVerbose(expr1, expr2)} :
           /\ result' = [NoResult EXCEPT !.raised = r.raised, !.value = r.value,
                                         !.method = r.method, !.details = r.details]
           /\ \E process \in {Constructed(r.atoms, Process(counter, made))} :
                  counter' = process.counter /\ made' = process.made
    /\ call' = "check_equivalence_verbose"
    /\ calls' = calls + 1
    /\ UNCHANGED <<expr1, expr2>>
    /\ UNCHANGED <<lexVars, polyVars, parseVars>>

\* a call of normalize_expression(expr1)
CallNormalizeExpression ==
    /\ call # "idle"
    /\ calls < MaxCalls
    /\ \E r \in {NormalizeExpression(expr1)} :
           /\ result' = [NoResult EXCEPT !.raised = r.raised, !.terms = r.terms]
           /\ \E process \in {Constructed(r.atoms, Process(counter, made))} :
                  counter' = process.counter /\ made' = process.made
    /\ call' = "normalize_expression"
    /\ calls' = calls + 1
    /\ UNCHANGED <<expr1, expr2>>
    /\ UNCHANGED <<lexVars, polyVars, parseVars>>

NextChecker == CallAreEquivalent \/ CallCheckEquivalenceVerbose

\* the pairs of expressions the checker is called on: both of one operator,
\* or both of two
InitChecker ==
    /\ \/ \E a \in Asts1, b \in Asts1 : CheckerInit(a, b)
       \/ \E a \in Asts2, b \in Asts2 : CheckerInit(a, b)
    /\ LexerIdle /\ PolynomialIdle /\ ParserIdle

SpecChecker == InitChecker /\ [][NextChecker]_vars

\* the normalizer alone, on one expression
InitNormalizer ==
    (\E a \in ParsedAsts : CheckerInit(a, a)) /\ LexerIdle /\ PolynomialIdle
    /\ ParserIdle

NextNormalizer == CallNormalizeExpression

SpecNormalizer == InitNormalizer /\ [][NextNormalizer]_vars

(***************************************************************************)
(* The checker called on anything: the expressions above, nodes with       *)
(* operators the code does not support, and objects that are no AST nodes. *)
(***************************************************************************)
Unsupported ==
    {Object}
    \cup {UnaryOp(op, l) : op \in {"+", "-"}, l \in VarLeaves \cup {Object}}
    \cup {BinOp(l, op, r) : l \in VarLeaves \cup {Object}, op \in {"%", "+", "/", "^"},
                            r \in VarLeaves \cup {Object, Number(2)}}
    \cup {FunctionCall(f, a) : f \in FuncNames, a \in {Object, UnaryOp("+", Variable("x"))}}
    \cup {BinOp(Variable("x"), op, UnaryOp("+", Variable("y"))) : op \in {"+", "*", "/"}}

InitCheckerAny ==
    /\ \/ \E a \in Unsupported, b \in Unsupported \cup VarLeaves : CheckerInit(a, b)
       \/ \E a \in VarLeaves, b \in Unsupported : CheckerInit(a, b)
       \/ \E a \in Asts1, b \in Asts1 : CheckerInit(a, b)
       \/ \E a \in Asts2, b \in Asts2 : CheckerInit(a, b)
    /\ LexerIdle /\ PolynomialIdle /\ ParserIdle

NextCheckerAny == CallAreEquivalent \/ CallCheckEquivalenceVerbose

SpecCheckerAny == InitCheckerAny /\ [][NextCheckerAny]_vars

(***************************************************************************)
(* Polynomial objects built by the constructor, by the normalizer and by   *)
(* arithmetic on what was built before.                                    *)
(***************************************************************************)
\* dicts handed to the constructor, zero coefficients included
RawMonomials == {{}, {<<VarSymbol("x"), 1>>}}
RawTerms == UNION {[ms -> -1..1] : ms \in SUBSET RawMonomials}

\* expressions whose normal forms are the operands of the arithmetic; none
\* of them is the zero polynomial, so that a sum or difference is zero only
\* when terms cancel
Operands ==
    {Number(1), Variable("x"), BinOp(Variable("x"), "-", Variable("y")),
     BinOp(Variable("x"), "/", Variable("y"))}

OperandPolynomials == {NormalizeExpression(e).terms : e \in Operands}

\* Polynomial(terms)
Construct ==
    /\ steps < MaxSteps
    /\ \E raw \in RawTerms : poly' = Polynomial(raw)
    /\ lastOp' = "init"
    /\ steps' = steps + 1
    /\ UNCHANGED <<heap, operands>>
    /\ UNCHANGED <<lexVars, eqVars, parseVars>>

\* normalize_expression(e)
Normalize ==
    /\ steps < MaxSteps
    /\ \E e \in Asts1 : poly' = NormalizeExpression(e).terms
    /\ lastOp' = "normalize"
    /\ steps' = steps + 1
    /\ UNCHANGED <<heap, operands>>
    /\ UNCHANGED <<lexVars, eqVars, parseVars>>

\* poly + q
Add ==
    /\ steps < MaxSteps
    /\ \E q \in OperandPolynomials : poly' = PolyAdd(poly, q)
    /\ lastOp' = "add"
    /\ steps' = steps + 1
    /\ UNCHANGED <<heap, operands>>
    /\ UNCHANGED <<lexVars, eqVars, parseVars>>

\* poly - q
Sub ==
    /\ steps < MaxSteps
    /\ \E q \in OperandPolynomials : poly' = PolySub(poly, q)
    /\ lastOp' = "sub"
    /\ steps' = steps + 1
    /\ UNCHANGED <<heap, operands>>
    /\ UNCHANGED <<lexVars, eqVars, parseVars>>

\* poly * q
Mul ==
    /\ steps < MaxSteps
    /\ \E q \in OperandPolynomials : poly' = PolyMul(poly, q)
    /\ lastOp' = "mul"
    /\ steps' = steps + 1
    /\ UNCHANGED <<heap, operands>>
    /\ UNCHANGED <<lexVars, eqVars, parseVars>>

\* -poly
Neg ==
    /\ steps < MaxSteps
    /\ poly' = PolyNeg(poly)
    /\ lastOp' = "neg"
    /\ steps' = steps + 1
    /\ UNCHANGED <<heap, operands>>
    /\ UNCHANGED <<lexVars, eqVars, parseVars>>

NextPolynomial == Construct \/ Normalize \/ Add \/ Sub \/ Mul \/ Neg

\* Polynomial(): no terms
InitPolynomial ==
    /\ poly = Polynomial(EmptyTerms)
    /\ lastOp = "init"
    /\ steps = 0
    /\ heap = EmptyHeap
    /\ operands = <<>>
    /\ LexerIdle /\ CheckerIdle /\ ParserIdle

SpecPolynomial == InitPolynomial /\ [][NextPolynomial]_vars

(***************************************************************************)
(* Arithmetic on Polynomial objects: two results of the normalizer, then   *)
(* sums, differences, products and negations of any objects made so far,   *)
(* an object with itself included.                                         *)
(***************************************************************************)
Applied(op, h, args) ==
    /\ steps < MaxOperations
    /\ heap' = h
    /\ poly' = TermsOf(h, Len(h.polys))
    /\ operands' = args
    /\ lastOp' = op
    /\ steps' = steps + 1

\* heap.polys[i] + heap.polys[j]
HeapAdd ==
    /\ \E i \in DOMAIN heap.polys, j \in DOMAIN heap.polys :
           Applied("add", PolynomialAdd(heap, i, j), <<i, j>>)
    /\ UNCHANGED <<lexVars, eqVars, parseVars>>

\* heap.polys[i] - heap.polys[j]
HeapSub ==
    /\ \E i \in DOMAIN heap.polys, j \in DOMAIN heap.polys :
           Applied("sub", PolynomialSub(heap, i, j), <<i, j>>)
    /\ UNCHANGED <<lexVars, eqVars, parseVars>>

\* heap.polys[i] * heap.polys[j]
HeapMul ==
    /\ \E i \in DOMAIN heap.polys, j \in DOMAIN heap.polys :
           Applied("mul", PolynomialMul(heap, i, j), <<i, j>>)
    /\ UNCHANGED <<lexVars, eqVars, parseVars>>

\* -heap.polys[i]
HeapNeg ==
    /\ \E i \in DOMAIN heap.polys : Applied("neg", PolynomialNeg(heap, i), <<i>>)
    /\ UNCHANGED <<lexVars, eqVars, parseVars>>

NextHeap == HeapAdd \/ HeapSub \/ HeapMul \/ HeapNeg

HeapOperands == Operands \cup {FunctionCall("sin", Variable("x"))}

\* p = normalize_expression(a); q = normalize_expression(b)
InitHeap ==
    /\ \E a \in HeapOperands, b \in HeapOperands :
           heap = PolynomialOf(PolynomialOf(EmptyHeap, NormalizeExpression(a).terms),
                               NormalizeExpression(b).terms)
    /\ poly = EmptyTerms
    /\ operands = <<>>
    /\ lastOp = "normalize"
    /\ steps = 0
    /\ LexerIdle /\ CheckerIdle /\ ParserIdle

SpecHeap == InitHeap /\ [][NextHeap]_vars

(***************************************************************************)
(* The parser, on every token list up to MaxTokens tokens followed by EOF. *)
(* The lists are not only those tokenize can return: Parser takes any      *)
(* list of tokens.                                                         *)
(***************************************************************************)
TokenChoices ==
    {<<"NUMBER", PyInt(2)>>, <<"VARIABLE", PyStr("x")>>, <<"VARIABLE", PyStr("y")>>,
     <<"PLUS", PyStr("+")>>, <<"MINUS", PyStr("-")>>, <<"MULTIPLY", PyStr("*")>>,
     <<"IMPLICIT_MULTIPLY", PyStr("*")>>, <<"DIVIDE", PyStr("/")>>,
     <<"POWER", PyStr("^")>>, <<"LPAREN", PyStr("(")>>, <<"RPAREN", PyStr(")")>>,
     <<"FUNCTION", PyStr("sin")>>}

\* the choices without parentheses, functions and implicit multiplication
InfixChoices ==
    {<<"NUMBER", PyInt(2)>>, <<"VARIABLE", PyStr("x")>>, <<"VARIABLE", PyStr("y")>>,
     <<"PLUS", PyStr("+")>>, <<"MINUS", PyStr("-")>>, <<"MULTIPLY", PyStr("*")>>,
     <<"DIVIDE", PyStr("/")>>, <<"POWER", PyStr("^")>>}

\* the token list of the choices f[1..n], each token at its index, then EOF
TokenListOf(f, n) ==
    [i \in 1..(n + 1) |-> IF i <= n THEN Token(f[i][1], f[i][2], i - 1)
                                    ELSE Token("EOF", PyNone, n)]

InitParser ==
    /\ \E n \in 0..MaxTokens :
          \E f \in [1..n -> TokenChoices] : ParserInit(TokenListOf(f, n))
    /\ LexerIdle /\ CheckerIdle /\ PolynomialIdle

NextParser == CallParse

SpecParser == InitParser /\ [][NextParser]_vars

(***************************************************************************)
(* parse(expression): a Lexer is constructed on the text, the text is      *)
(* tokenized, a Parser is constructed on the tokens and its parse method   *)
(* is called.  A step of the parser is the code of one method up to the    *)
(* next call, return or raise.  The code runs on without waiting for       *)
(* anything, so a step that can be taken is taken.                         *)
(***************************************************************************)
\* what the texts given to parse are put together from
ParseLexemes ==
    {<<"x">>, <<"2">>, <<"-">>, <<"*">>, <<"^">>, <<"(">>, <<")">>, <<"l", "n">>, <<" ">>,
     <<"@">>}

RECURSIVE ParseTextsOfLen(_)
ParseTextsOfLen(n) ==
    IF n = 0 THEN {<<>>}
    ELSE {t \o l : t \in ParseTextsOfLen(n - 1), l \in ParseLexemes}

ParseTexts == UNION {ParseTextsOfLen(k) : k \in 0..MaxText}

\* lexer = Lexer(expression) in tokenize(expression)
NewLexer ==
    /\ lexState = "idle"
    /\ parseState = "idle"
    /\ \E text \in ParseTexts : expression' = text
    /\ pos' = 0
    /\ tokens' = <<>>
    /\ lexState' = "scan"
    /\ lexError' = NoError
    /\ output' = <<>>
    /\ UNCHANGED <<eqVars, polyVars, parseVars>>

\* parser = Parser(tokens) in parse(expression)
NewParser ==
    /\ lexState = "done"
    /\ parseState = "idle"
    /\ parserTokens' = output
    /\ parseState' = "new"
    /\ UNCHANGED <<parserPos, ast, parseError, frames>>
    /\ UNCHANGED <<lexVars, eqVars, polyVars>>

\* a call of a method of the parser in progress: the method, the place
\* reached in its body, its locals left and op_token, and what the method
\* it called last returned
Frame(rule) == [rule |-> rule, at |-> "start", left |-> Object, op |-> "", got |-> Object]

\* a consume() that leaves the cursor where it is
ConsumeNothing(p) == p

\* self.pos += 1 of Parser.consume
Consume(p) == p + 1

\* the frames once the method on top has called rule, to go on at
\* continuation when rule returns
CallOf(fs, rule, continuation) ==
    <<Frame(rule), [Head(fs) EXCEPT !.at = continuation]>> \o Tail(fs)

\* the frames once the method on top has returned node to its caller
ReturnOf(fs, node) == <<[fs[2] EXCEPT !.got = node]>> \o Tail(Tail(fs))

\* the method on top, with its locals left and op_token assigned
Assigned(fs, left, op) == <<[Head(fs) EXCEPT !.left = left, !.op = op]>> \o Tail(fs)

\* the parser goes on with the cursor at p and the frames fs
Goes(p, fs) ==
    /\ parserPos' = p
    /\ frames' = fs
    /\ UNCHANGED <<parserTokens, ast, parseState, parseError>>

\* a ValueError leaves every method in progress
Raises(error) ==
    /\ parseState' = "error"
    /\ parseError' = error
    /\ frames' = <<>>
    /\ UNCHANGED <<parserTokens, parserPos, ast>>

\* the method on top of the frames is rule
Top(rule) == parseState = "parsing" /\ frames # <<>> /\ Head(frames).rule = rule

\* Parser.parse: the call of _parse_expression, then the test for EOF
StepParse ==
    /\ IF parseState = "new"
       THEN /\ frames' = <<Frame("expression"), [Frame("parse") EXCEPT !.at = "back"]>>
            /\ parseState' = "parsing"
            /\ UNCHANGED <<parserTokens, parserPos, ast, parseError>>
       ELSE /\ Top("parse")
            /\ IF CurrentToken(parserTokens, parserPos).type # "EOF"
               THEN Raises(UnexpectedToken(CurrentToken(parserTokens, parserPos)))
               ELSE /\ ast' = Head(frames).got
                    /\ parseState' = "done"
                    /\ frames' = <<>>
                    /\ UNCHANGED <<parserTokens, parserPos, parseError>>
    /\ UNCHANGED <<lexVars, eqVars, polyVars>>

\* Parser._parse_expression, up to its next call or its return
StepExpression ==
    /\ Top("expression")
    /\ LET f == Head(frames)
           token == CurrentToken(parserTokens, parserPos)
           left == IF f.at = "lead" THEN BinOp(Number(0), "-", f.got)
                   ELSE IF f.at = "first" THEN f.got
                   ELSE BinOp(f.left, f.op, f.got)
       IN  IF f.at = "start"
           THEN IF token.type = "MINUS"
                THEN Goes(Consume(parserPos), CallOf(frames, "unary", "lead"))
                ELSE Goes(parserPos, CallOf(frames, "unary", "first"))
           ELSE IF token.type \in {"PLUS", "MINUS"}
                THEN Goes(Consume(parserPos),
                          CallOf(Assigned(frames, left, token.value[2]), "unary", "next"))
                ELSE Goes(parserPos, ReturnOf(frames, left))
    /\ UNCHANGED <<lexVars, eqVars, polyVars>>

\* Parser._parse_term, up to its next call or its return
StepTerm ==
    /\ Top("term")
    /\ LET f == Head(frames)
           token == CurrentToken(parserTokens, parserPos)
           left == IF f.at = "first" THEN f.got ELSE BinOp(f.left, f.op, f.got)
       IN  IF f.at = "start"
           THEN Goes(parserPos, CallOf(frames, "power", "first"))
           ELSE IF token.type \in {"MULTIPLY", "IMPLICIT_MULTIPLY", "DIVIDE"}
                THEN Goes(Consume(parserPos),
                          CallOf(Assigned(frames, left,
                                          IF token.type = "IMPLICIT_MULTIPLY"
                                          THEN "*" ELSE token.value[2]),
                                 "power", "next"))
                ELSE Goes(parserPos, ReturnOf(frames, left))
    /\ UNCHANGED <<lexVars, eqVars, polyVars>>

\* Parser._parse_power, up to its next call or its return
StepPower ==
    /\ Top("power")
    /\ LET f == Head(frames)
           token == CurrentToken(parserTokens, parserPos)
       IN  IF f.at = "start"
           THEN Goes(parserPos, CallOf(frames, "function", "left"))
           ELSE IF f.at = "left"
           THEN IF token.type = "POWER"
                THEN Goes(Consume(parserPos),
                          CallOf(Assigned(frames, f.got, token.value[2]), "power", "right"))
                ELSE Goes(parserPos, ReturnOf(frames, f.got))
           ELSE Goes(parserPos, ReturnOf(frames, BinOp(f.left, f.op, f.got)))
    /\ UNCHANGED <<lexVars, eqVars, polyVars>>

\* Parser._parse_function, up to its next call or its return
StepFunction ==
    /\ Top("function")
    /\ LET f == Head(frames)
           token == CurrentToken(parserTokens, parserPos)
       IN  IF f.at = "start"
           THEN IF token.type = "FUNCTION"
                THEN Goes(Consume(parserPos),
                          CallOf(Assigned(frames, Object, token.value[2]), "primary", "arg"))
                ELSE Goes(parserPos, CallOf(frames, "primary", "pass"))
           ELSE IF f.at = "arg"
           THEN Goes(parserPos, ReturnOf(frames, FunctionCall(f.op, f.got)))
           ELSE Goes(parserPos, ReturnOf(frames, f.got))
    /\ UNCHANGED <<lexVars, eqVars, polyVars>>

\* Parser._parse_unary, up to its next call or its return
StepUnary ==
    /\ Top("unary")
    /\ LET f == Head(frames)
           token == CurrentToken(parserTokens, parserPos)
       IN  IF f.at = "start"
           THEN IF token.type = "MINUS"
                THEN Goes(Consume(parserPos), CallOf(frames, "term", "negate"))
                ELSE Goes(parserPos, CallOf(frames, "term", "pass"))
           ELSE IF f.at = "negate"
           THEN Goes(parserPos, ReturnOf(frames, UnaryOp("-", f.got)))
           ELSE Goes(parserPos, ReturnOf(frames, f.got))
    /\ UNCHANGED <<lexVars, eqVars, polyVars>>

\* Parser._parse_primary, up to its call of _parse_expression or its return
StepPrimary ==
    /\ Top("primary")
    /\ LET f == Head(frames)
           token == CurrentToken(parserTokens, parserPos)
       IN  IF f.at = "start"
           THEN IF token.type = "NUMBER"
                THEN Goes(Consume(parserPos), ReturnOf(frames, Number(token.value[2])))
                ELSE IF token.type = "VARIABLE"
                THEN Goes(Consume(parserPos), ReturnOf(frames, Variable(token.value[2])))
                ELSE IF token.type = "LPAREN"
                THEN Goes(Consume(parserPos), CallOf(frames, "expression", "inner"))
                ELSE Raises(UnexpectedTokenInPrimary(token))
           ELSE IF token.type # "RPAREN"
                THEN Raises(ExpectedGot("RPAREN", token))
                ELSE Goes(Consume(parserPos), ReturnOf(frames, f.got))
    /\ UNCHANGED <<lexVars, eqVars, polyVars>>

\* nothing constructed yet
InitPipeline == LexerIdle /\ CheckerIdle /\ PolynomialIdle /\ ParserIdle

NextPipeline ==
    \/ NewLexer \/ ScanStep \/ ScanFinish \/ NewParser
    \/ StepParse \/ StepExpression \/ StepUnary \/ StepTerm \/ StepPower \/ StepFunction
    \/ StepPrimary

SpecPipeline == InitPipeline /\ [][NextPipeline]_vars /\ WF_vars(NextPipeline)

InitInfix ==
    /\ \E n \in 0..MaxInfix :
          \E f \in [1..n -> InfixChoices] : ParserInit(TokenListOf(f, n))
    /\ LexerIdle /\ CheckerIdle /\ PolynomialIdle

NextInfix == CallParse

SpecInfix == InitInfix /\ [][NextInfix]_vars

(***************************************************************************)
(* The normalizer on power nodes: every base of at most one operator, to   *)
(* every literal exponent up to MaxExponent and to a variable.             *)
(***************************************************************************)
Exponents == {Number(n) : n \in 0..MaxExponent} \cup VarLeaves

Powers == {BinOp(base, "^", e) : base \in Asts1, e \in Exponents}

InitPowers ==
    /\ \E a \in Powers : CheckerInit(a, a)
    /\ LexerIdle /\ PolynomialIdle /\ ParserIdle

NextPowers == CallNormalizeExpression

SpecPowers == InitPowers /\ [][NextPowers]_vars

(***************************************************************************)
(* The checker on pairs of expressions that the polynomial stage expands:  *)
(* sums, differences and products of leaves, a negated right operand, the  *)
(* two groupings of a sum and of a product, a product with a sum and the   *)
(* sum of two products, the square of v+1 and its expansion.               *)
(***************************************************************************)
ExpandedOps == {"+", "-", "*"}

Groupings ==
    {BinOp(BinOp(a, op, b), op, c) : a \in VarLeaves, b \in VarLeaves, c \in VarLeaves,
                                     op \in {"+", "*"}}
    \cup {BinOp(a, op, BinOp(b, op, c)) : a \in VarLeaves, b \in VarLeaves, c \in VarLeaves,
                                          op \in {"+", "*"}}

Distributions ==
    {BinOp(a, "*", BinOp(b, op, c)) : a \in VarLeaves, b \in VarLeaves, c \in VarLeaves,
                                      op \in {"+", "-"}}
    \cup {BinOp(BinOp(a, "*", b), op, BinOp(a, "*", c)) :
              a \in VarLeaves, b \in VarLeaves, c \in VarLeaves, op \in {"+", "-"}}

Squares ==
    {BinOp(BinOp(v, "+", Number(1)), "^", Number(2)) : v \in VarLeaves}
    \cup {BinOp(BinOp(BinOp(v, "^", Number(2)), "+", BinOp(Number(2), "*", v)), "+", Number(1)) :
              v \in VarLeaves}

ExpandedAsts ==
    Leaves
    \cup {BinOp(l, op, r) : l \in Leaves, op \in ExpandedOps, r \in Leaves}
    \cup {BinOp(a, op, UnaryOp("-", b)) : a \in VarLeaves, b \in VarLeaves, op \in {"+", "-"}}
    \cup Groupings \cup Distributions \cup Squares

InitExpanded ==
    /\ \E a \in ExpandedAsts : \E b \in ExpandedAsts : CheckerInit(a, b)
    /\ LexerIdle /\ PolynomialIdle /\ ParserIdle

SpecExpanded == InitExpanded /\ [][NextChecker]_vars

(***************************************************************************)
(* The checker on pairs of fractions: a quotient of leaves, a leaf         *)
(* combined with a quotient, a quotient of a sum or difference, a negated  *)
(* quotient, and quotients of a function call and a power.                 *)
(***************************************************************************)
OneAndVariables == {Number(1)} \cup VarLeaves

Opaque == {FunctionCall("sin", Variable("x")), BinOp(Variable("x"), "^", Variable("y"))}

FractionAsts ==
    Leaves
    \cup {BinOp(l, "/", r) : l \in Leaves, r \in Leaves}
    \cup {BinOp(a, op, BinOp(b, "/", c)) :
              a \in OneAndVariables, op \in {"+", "-", "*", "/"},
              b \in {Number(1), Variable("x")}, c \in VarLeaves}
    \cup {BinOp(BinOp(a, op, b), "/", c) :
              a \in VarLeaves, op \in {"+", "-"}, b \in OneAndVariables, c \in VarLeaves}
    \cup {UnaryOp("-", BinOp(a, "/", b)) : a \in VarLeaves, b \in VarLeaves}
    \cup Opaque \cup {BinOp(a, "/", b) : a \in Opaque, b \in Opaque}

InitRational ==
    /\ \E a \in FractionAsts : \E b \in FractionAsts : CheckerInit(a, b)
    /\ LexerIdle /\ PolynomialIdle /\ ParserIdle

SpecRational == InitRational /\ [][NextChecker]_vars

(***************************************************************************)
(* A process making one call after another, each on arguments of its own;  *)
(* AtomicExpr._counter and the objects constructed live as long as the     *)
(* process.                                                                *)
(***************************************************************************)
ProcessArguments ==
    {Variable("x"), FunctionCall("sin", Variable("x")),
     BinOp(Variable("x"), "/", Variable("x")),
     BinOp(FunctionCall("sin", Variable("x")), "*", FunctionCall("sin", Variable("x")))}

\* normalize_expression(a)
ProcessNormalizeExpression ==
    /\ calls < MaxSequence
    /\ \E a \in ProcessArguments : \E r \in {NormalizeExpression(a)} :
           /\ expr1' = a
           /\ expr2' = Object
           /\ result' = [NoResult EXCEPT !.raised = r.raised, !.terms = r.terms]
           /\ \E process \in {Constructed(r.atoms, Process(counter, made))} :
                  counter' = process.counter /\ made' = process.made
    /\ call' = "normalize_expression"
    /\ calls' = calls + 1
    /\ UNCHANGED <<lexVars, polyVars, parseVars>>

\* are_equivalent(a, b)
ProcessAreEquivalent ==
    /\ calls < MaxSequence
    /\ \E a \in ProcessArguments, b \in ProcessArguments : \E r \in {AreEquivalent(a, b)} :
           /\ expr1' = a
           /\ expr2' = b
           /\ result' = [NoResult EXCEPT !.raised = r.raised, !.value = r.value]
           /\ \E process \in {Constructed(r.atoms, Process(counter, made))} :
                  counter' = process.counter /\ made' = process.made
    /\ call' = "are_equivalent"
    /\ calls' = calls + 1
    /\ UNCHANGED <<lexVars, polyVars, parseVars>>

\* check_equivalence_verbose(a, b)
ProcessCheckEquivalenceVerbose ==
    /\ calls < MaxSequence
    /\ \E a \in ProcessArguments, b \in ProcessArguments :
       \E r \in {CheckEquivalenceVerbose(a, b)} :
           /\ expr1' = a
           /\ expr2' = b
           /\ result' = [NoResult EXCEPT !.raised = r.raised, !.value = r.value,
                                         !.method = r.method, !.details = r.details]
           /\ \E process \in {Constructed(r.atoms, Process(counter, made))} :
                  counter' = process.counter /\ made' = process.made
    /\ call' = "check_equivalence_verbose"
    /\ calls' = calls + 1
    /\ UNCHANGED <<lexVars, polyVars, parseVars>>

\* the process after the import of the modules
InitProcess ==
    /\ CheckerInit(Object, Object)
    /\ LexerIdle /\ PolynomialIdle /\ ParserIdle

NextProcess ==
    ProcessNormalizeExpression \/ ProcessAreEquivalent \/ ProcessCheckEquivalenceVerbose

SpecProcess == InitProcess /\ [][NextProcess]_vars

(***************************************************************************)
(* The value of an expression.  Values are rationals n/d with d > 0; an    *)
(* expression has no value where it divides by zero, raises zero to the    *)
(* power zero, or raises to a power that is no natural number.  A function *)
(* name stands for one fixed function of the rationals, the same wherever  *)
(* the name occurs.                                                        *)
(***************************************************************************)
Rational(n, d) == [def |-> TRUE, n |-> n, d |-> d]
Undefined == [def |-> FALSE, n |-> 0, d |-> 1]

RECURSIVE IntPow(_, _)
IntPow(b, k) == IF k = 0 THEN 1 ELSE b * IntPow(b, k - 1)

RationalDiv(a, b) ==
    IF b.n = 0 THEN Undefined
    ELSE IF b.n > 0 THEN Rational(a.n * b.d, a.d * b.n)
         ELSE Rational(-(a.n * b.d), a.d * (-b.n))

RationalPow(a, b) ==
    IF b.n % b.d # 0 \/ b.n < 0 \/ (a.n = 0 /\ b.n = 0) THEN Undefined
    ELSE Rational(IntPow(a.n, b.n \div b.d), IntPow(a.d, b.n \div b.d))

RationalOp(op, a, b) ==
    IF ~a.def \/ ~b.def THEN Undefined
    ELSE CASE op = "+" -> Rational(a.n * b.d + b.n * a.d, a.d * b.d)
           [] op = "-" -> Rational(a.n * b.d - b.n * a.d, a.d * b.d)
           [] op = "*" -> Rational(a.n * b.n, a.d * b.d)
           [] op = "/" -> RationalDiv(a, b)
           [] op = "^" -> RationalPow(a, b)

\* the function a name stands for
Apply(func_name, a) ==
    IF ~a.def THEN Undefined
    ELSE CASE func_name = "sin" -> Rational(a.n + a.d, a.d)
           [] func_name = "cos" -> Rational(2 * a.n, a.d)
           [] OTHER -> Rational(a.n * a.n, a.d * a.d)

RECURSIVE Eval(_, _)
Eval(node, env) ==
    CASE node.kind = "Number" -> Rational(node.value, 1)
      [] node.kind = "Variable" -> Rational(env[node.name], 1)
      [] node.kind = "UnaryOp" ->
            RationalOp("-", Rational(0, 1), Eval(node.operand, env))
      [] node.kind = "BinOp" ->
            RationalOp(node.op, Eval(node.left, env), Eval(node.right, env))
      [] node.kind = "FunctionCall" -> Apply(node.func_name, Eval(node.arg, env))

\* the assignments the expressions are compared under
Assignments == [VarNames -> {1, 2}]

\* the two expressions have the same value wherever both have one
SameValue(a, b) ==
    \A env \in Assignments :
        \E va \in {Eval(a, env)} : \E vb \in {Eval(b, env)} :
            (va.def /\ vb.def) => va.n * vb.d = vb.n * va.d

(***************************************************************************)
(* C1.  Soundness of are_equivalent on parsed expressions: when it returns *)
(* true the two expressions have the same value under every assignment of  *)
(* the variables.  Violated: the canonical string of x/(y/x) and of        *)
(* (x/y)/x is the same "x/y/x", so the two become the same atom and the    *)
(* polynomial stage returns true.                                          *)
(***************************************************************************)
C1_Soundness ==
    (call = "are_equivalent" /\ ~result.raised /\ result.value) => SameValue(expr1, expr2)

\* the two entry points of the checker
EntryPoints == {"are_equivalent", "check_equivalence_verbose"}

\* a failure inside the call: the normalizations of the polynomial stage
\* (n1) raised, or the rational stage was reached and raised
FailureInside(n1, s1, s2, s3) ==
    n1.raised \/ (~s1.proved /\ ~s2.value /\ s3.ended # "compared")

ReturnsFalse ==
    /\ ~result.value
    /\ call = "check_equivalence_verbose" => result.method \in {"rational", "error"}

ReturnsStructural ==
    /\ result.value
    /\ call = "check_equivalence_verbose" => result.method = "structural"

CascadeOf(s1, s2, s3) ==
    IF s1.proved
    THEN [value |-> TRUE, methods |-> {"polynomial"}, atoms |-> s1.atoms]
    ELSE IF s2.value
         THEN [value |-> TRUE, methods |-> {"structural"}, atoms |-> s1.atoms \o s2.atoms]
         ELSE IF s3.ended = "compared" /\ s3.equal
              THEN [value |-> TRUE, methods |-> {"rational"},
                    atoms |-> s1.atoms \o s2.atoms \o s3.atoms]
              ELSE [value |-> FALSE, methods |-> {"rational", "error"},
                    atoms |-> s1.atoms \o s2.atoms \o s3.atoms]

Follows(c) ==
    /\ result.value = c.value
    /\ result.method \in c.methods
    /\ calls = 1 => counter = Len(c.atoms)

(***************************************************************************)
(* C3.  check_equivalence_verbose tries polynomial, structural, rational   *)
(* in this order, a stage only when the ones before it did not prove       *)
(* equivalence (the AtomicExpr objects constructed are those of the stages *)
(* tried, no more); a true verdict carries the name of the first stage     *)
(* that proves equivalence, a false verdict "rational" or "error".         *)
(***************************************************************************)
C3_Cascade ==
    call = "check_equivalence_verbose" =>
        Follows(CascadeOf(TryPolynomial(expr1, expr2), AstEqual(expr1, expr2),
                          RationalStage(expr1, expr2)))

\* the first stage did not prove the pair equal, the second did
C3_Witness ==
    /\ call = "check_equivalence_verbose"
    /\ result.value
    /\ result.method = "structural"
    /\ ~TryPolynomial(expr1, expr2).proved

SameVerdict(r) == r.raised = result.raised /\ r.value = result.value

(***************************************************************************)
(* C4.  The boolean returned by check_equivalence_verbose(a, b) is the     *)
(* one returned by are_equivalent(a, b), for every pair a, b.              *)
(***************************************************************************)
C4_SameVerdict ==
    /\ call = "check_equivalence_verbose" => SameVerdict(AreEquivalent(expr1, expr2))
    /\ call = "are_equivalent" => SameVerdict(CheckEquivalenceVerbose(expr1, expr2))

\* a verdict that only the rational stage gives
C4_Witness ==
    /\ call = "check_equivalence_verbose"
    /\ result.value
    /\ result.method = "rational"

(***************************************************************************)
(* C5.  A Polynomial holds no monomial with coefficient 0, whether built   *)
(* by the constructor or returned by +, -, *, negation or                  *)
(* normalize_expression, after any sequence of these operations.           *)
(***************************************************************************)
C5_NoZeroCoefficient == \A m \in DOMAIN poly : poly[m] # 0

\* a difference whose terms all cancelled
C5_Witness == lastOp = "sub" /\ steps > 1 /\ poly = EmptyTerms

\* the nodes the normalizer does not expand
NotExpanded(node) ==
    \/ node.kind = "FunctionCall"
    \/ node.kind = "BinOp" /\ node.op = "/"
    \/ node.kind = "BinOp" /\ node.op = "^"
          /\ ~(node.right.kind = "Number" /\ node.right.value \in {2, 3})

\* one monomial, made of one atom to the power 1, with coefficient 1
IsOneAtom(terms) ==
    /\ Cardinality(DOMAIN terms) = 1
    /\ \A m \in DOMAIN terms :
           /\ terms[m] = 1
           /\ Cardinality(m) = 1
           /\ \A sp \in m : sp[1][1] = "atom" /\ sp[2] = 1

InsertTable ==
    ({"NUMBER"} \X {"VARIABLE", "FUNCTION", "LPAREN"})
    \cup ({"VARIABLE", "RPAREN"} \X {"VARIABLE", "FUNCTION", "LPAREN", "NUMBER"})

\* a multiplication is implied between toks[i] and its successor
Implied(toks, i) == i < Len(toks) /\ <<toks[i].type, toks[i + 1].type>> \in InsertTable

\* the number of multiplications implied before toks[i]
ImpliedBefore(toks, i) == Cardinality({j \in 1..(i - 1) : Implied(toks, j)})

(***************************************************************************)
(* C7.  The list tokenize returns is the list of the scanned tokens, each  *)
(* unchanged and in order, with exactly one IMPLICIT_MULTIPLY token        *)
(* between two adjacent tokens whose kinds are in the adjacency table, and *)
(* nothing between any other two.                                          *)
(***************************************************************************)
C7_ImplicitMultiplication ==
    lexState = "done" =>
        /\ Len(output) = Len(tokens) + ImpliedBefore(tokens, Len(tokens))
        /\ \A i \in 1..Len(tokens) :
               /\ output[i + ImpliedBefore(tokens, i)] = tokens[i]
               /\ Implied(tokens, i) =>
                      output[i + ImpliedBefore(tokens, i) + 1].type = "IMPLICIT_MULTIPLY"

\* a multiplication inserted between a closing parenthesis and a number
C7_Witness ==
    /\ lexState = "done"
    /\ \E i \in 1..(Len(output) - 2) :
           /\ output[i].type = "RPAREN"
           /\ output[i + 1].type = "IMPLICIT_MULTIPLY"
           /\ output[i + 2].type = "NUMBER"

\* the maximal runs of letters of text e, as <<start, end>> (end excluded)
Runs(e) ==
    {r \in (0..Len(e)) \X (0..Len(e)) :
        /\ r[1] < r[2]
        /\ \A i \in r[1]..(r[2] - 1) : IsAlpha(CharAt(e, i))
        /\ r[1] = 0 \/ ~IsAlpha(CharAt(e, r[1] - 1))
        /\ r[2] = Len(e) \/ ~IsAlpha(CharAt(e, r[2]))}

RunText(e, r) == StrOfChars(Slice(e, r[1], r[2]))

Emitted(type, text, at) == \E i \in 1..Len(tokens) : tokens[i] = Token(type, PyStr(text), at)

AdjacentLetters(e) ==
    /\ Len(e) >= 2
    /\ \A i \in 1..Len(e) : IsAlpha(e[i])
    /\ StrOfChars(e) \notin FUNCTIONS

(***************************************************************************)
(* C9.  tokenize of adjacent letters that do not form a function name      *)
(* returns one VARIABLE token per letter with an IMPLICIT_MULTIPLY token   *)
(* between each two.  Violated: _read_identifier takes the whole run as    *)
(* one identifier and raises "Invalid identifier" for "xy".                *)
(***************************************************************************)
C9_AdjacentLetters ==
    (lexState \in {"done", "error"} /\ AdjacentLetters(expression)) =>
        /\ lexState = "done"
        /\ Len(output) = 2 * Len(expression)
        /\ \A i \in 1..Len(expression) :
               /\ output[2 * i - 1] = Token("VARIABLE", PyStr(expression[i]), i - 1)
               /\ output[2 * i].type =
                      IF i < Len(expression) THEN "IMPLICIT_MULTIPLY" ELSE "EOF"

\* the characters tokenize accepts
Accepted(ch) == IsSpace(ch) \/ IsDigit(ch) \/ IsAlpha(ch) \/ ch \in OperatorChars

\* the offsets of the characters of e that tokenize does not accept
Offending(e) == {i \in 0..(Len(e) - 1) : ~Accepted(CharAt(e, i))}

Leftmost(offsets) == CHOOSE i \in offsets : \A j \in offsets : i <= j

(***************************************************************************)
(* C10.  On a text with a character that is no whitespace, digit, letter   *)
(* or operator, tokenize fails with the unexpected-character error naming  *)
(* the leftmost such character and its offset, and returns no token list.  *)
(* Violated: on "xy." the run "xy" is met first and "Invalid identifier"   *)
(* is raised for it (the fault of C9).                                     *)
(***************************************************************************)
C10_UnexpectedCharacter ==
    (lexState \in {"done", "error"} /\ Offending(expression) # {}) =>
        /\ lexState = "error"
        /\ lexError = UnexpectedCharacter(CharAt(expression, Leftmost(Offending(expression))),
                                          Leftmost(Offending(expression)))
        /\ output = <<>>

\* the kinds of the tokens given to the parser, EOF left out
Kinds == [i \in 1..(Len(parserTokens) - 1) |-> parserTokens[i].type]

\* Parser.parse has returned or raised
ParseEnded == parseState \in {"done", "error"}

\* the kinds that end an operand
OperandEnd == {"NUMBER", "VARIABLE", "RPAREN"}

\* the token at index i of k is a minus with no operand before it
IsUnaryMinus(k, i) == k[i] = "MINUS" /\ (i = 1 \/ k[i - 1] \notin OperandEnd)

(***************************************************************************)
(* C11.  A unary minus immediately followed by another minus is a parse    *)
(* error; in particular "--x" is rejected.  Violated: on MINUS MINUS       *)
(* VARIABLE the leading minus is taken by _parse_expression and the        *)
(* second by _parse_unary, and parse returns 0 - (-x).                     *)
(***************************************************************************)
C11_DoubleMinusRejected ==
    (ParseEnded /\ \E i \in 1..(Len(Kinds) - 1) :
                       IsUnaryMinus(Kinds, i) /\ Kinds[i + 1] = "MINUS") =>
        parseState = "error"

\* the number of UnaryOp nodes of a tree
RECURSIVE UnaryOps(_)
UnaryOps(node) ==
    CASE node.kind = "BinOp" -> UnaryOps(node.left) + UnaryOps(node.right)
      [] node.kind = "UnaryOp" -> 1 + UnaryOps(node.operand)
      [] node.kind = "FunctionCall" -> UnaryOps(node.arg)
      [] OTHER -> 0

\* the number of nodes BinOp(Number(0), '-', ...) of a tree
RECURSIVE ZeroMinuses(_)
ZeroMinuses(node) ==
    CASE node.kind = "BinOp" ->
             (IF node.left = Number(0) /\ node.op = "-" THEN 1 ELSE 0)
             + ZeroMinuses(node.left) + ZeroMinuses(node.right)
      [] node.kind = "UnaryOp" -> ZeroMinuses(node.operand)
      [] node.kind = "FunctionCall" -> ZeroMinuses(node.arg)
      [] OTHER -> 0

\* the first operand of a chain of additions and subtractions
RECURSIVE FirstOperand(_)
FirstOperand(node) ==
    IF node.kind = "BinOp" /\ node.op \in {"+", "-"} /\ node.left.kind = "BinOp"
       /\ node.left.op \in {"+", "-"}
    THEN FirstOperand(node.left)
    ELSE node

\* the minuses at the start of an additive expression: first token or after '('
LeadingMinusAt(k) == {i \in 1..Len(k) : k[i] = "MINUS" /\ (i = 1 \/ k[i - 1] = "LPAREN")}

\* the minuses that follow a '+', a binary '-' or a leading minus
MinusAfterSign(k) == {i \in 2..Len(k) : k[i] = "MINUS" /\ k[i - 1] \in {"PLUS", "MINUS"}}

NegatedTerm(k) ==
    /\ Len(k) >= 2
    /\ k[1] = "MINUS"
    /\ \A i \in 2..Len(k) : k[i] \notin {"PLUS", "MINUS"}

(***************************************************************************)
(* C13.  parse of an input that is a minus followed by a term returns a    *)
(* tree whose root is UnaryOp('-') with the term as operand: "-x" gives    *)
(* UnaryOp('-', Variable(x)).  Violated: _parse_expression builds          *)
(* BinOp(Number(0), '-', Variable(x)) for the leading minus.               *)
(***************************************************************************)
C13_UnaryMinusRoot ==
    (parseState = "done" /\ NegatedTerm(Kinds)) =>
        /\ ast.kind = "UnaryOp"
        /\ ast.op = "-"
        /\ Kinds = <<"MINUS", "VARIABLE">> =>
               ast = UnaryOp("-", Variable(parserTokens[2].value[2]))

\* the kinds the grammars write "*" or "/"
MulKinds == {"MULTIPLY", "IMPLICIT_MULTIPLY", "DIVIDE"}

\* k[a..b]
Part(k, a, b) == SubSeq(k, a, b)

(***************************************************************************)
(* Derivability from the grammar the parser's methods follow:              *)
(*   expr := ["-"] unary (("+"|"-") unary)*     unary := ["-"] term        *)
(*   term := power (("*"|"/") power)*           power := funcall ["^" power] *)
(*   funcall := FUNCTION primary | primary                                 *)
(*   primary := NUMBER | VARIABLE | "(" expr ")"                           *)
(* Each predicate tries every split of the kind sequence.                  *)
(***************************************************************************)
RECURSIVE IsExpr(_)
RECURSIVE IsSum(_)
RECURSIVE IsUnary(_)
RECURSIVE IsTerm(_)
RECURSIVE IsPower(_)
RECURSIVE IsFuncall(_)
RECURSIVE IsPrimary(_)

IsPrimary(k) ==
    \/ k = <<"NUMBER">>
    \/ k = <<"VARIABLE">>
    \/ /\ Len(k) >= 3
       /\ k[1] = "LPAREN"
       /\ k[Len(k)] = "RPAREN"
       /\ IsExpr(Part(k, 2, Len(k) - 1))

IsFuncall(k) ==
    \/ IsPrimary(k)
    \/ Len(k) >= 2 /\ k[1] = "FUNCTION" /\ IsPrimary(Tail(k))

IsPower(k) ==
    \/ IsFuncall(k)
    \/ \E i \in 2..(Len(k) - 1) :
           /\ k[i] = "POWER"
           /\ IsFuncall(Part(k, 1, i - 1))
           /\ IsPower(Part(k, i + 1, Len(k)))

IsTerm(k) ==
    \/ IsPower(k)
    \/ \E i \in 2..(Len(k) - 1) :
           /\ k[i] \in MulKinds
           /\ IsTerm(Part(k, 1, i - 1))
           /\ IsPower(Part(k, i + 1, Len(k)))

IsUnary(k) ==
    \/ IsTerm(k)
    \/ Len(k) >= 2 /\ k[1] = "MINUS" /\ IsTerm(Tail(k))

IsSum(k) ==
    \/ IsUnary(k)
    \/ \E i \in 2..(Len(k) - 1) :
           /\ k[i] \in {"PLUS", "MINUS"}
           /\ IsSum(Part(k, 1, i - 1))
           /\ IsUnary(Part(k, i + 1, Len(k)))

IsExpr(k) ==
    \/ IsSum(k)
    \/ Len(k) >= 2 /\ k[1] = "MINUS" /\ IsSum(Tail(k))

(***************************************************************************)
(* Derivability from the documented grammar:                               *)
(*   expr := ["-"] term (("+"|"-") term)*       term := power (("*"|"/") power)* *)
(*   power := unary ["^" power]                 unary := ["-"] funcall     *)
(*   funcall := FUNCTION primary | primary                                 *)
(*   primary := NUMBER | VARIABLE | "(" expr ")"                           *)
(***************************************************************************)
RECURSIVE DocExpr(_)
RECURSIVE DocSum(_)
RECURSIVE DocTerm(_)
RECURSIVE DocPower(_)
RECURSIVE DocUnary(_)
RECURSIVE DocFuncall(_)
RECURSIVE DocPrimary(_)

DocPrimary(k) ==
    \/ k = <<"NUMBER">>
    \/ k = <<"VARIABLE">>
    \/ /\ Len(k) >= 3
       /\ k[1] = "LPAREN"
       /\ k[Len(k)] = "RPAREN"
       /\ DocExpr(Part(k, 2, Len(k) - 1))

DocFuncall(k) ==
    \/ DocPrimary(k)
    \/ Len(k) >= 2 /\ k[1] = "FUNCTION" /\ DocPrimary(Tail(k))

DocUnary(k) ==
    \/ DocFuncall(k)
    \/ Len(k) >= 2 /\ k[1] = "MINUS" /\ DocFuncall(Tail(k))

DocPower(k) ==
    \/ DocUnary(k)
    \/ \E i \in 2..(Len(k) - 1) :
           /\ k[i] = "POWER"
           /\ DocUnary(Part(k, 1, i - 1))
           /\ DocPower(Part(k, i + 1, Len(k)))

DocTerm(k) ==
    \/ DocPower(k)
    \/ \E i \in 2..(Len(k) - 1) :
           /\ k[i] \in MulKinds
           /\ DocTerm(Part(k, 1, i - 1))
           /\ DocPower(Part(k, i + 1, Len(k)))

DocSum(k) ==
    \/ DocTerm(k)
    \/ \E i \in 2..(Len(k) - 1) :
           /\ k[i] \in {"PLUS", "MINUS"}
           /\ DocSum(Part(k, 1, i - 1))
           /\ DocTerm(Part(k, i + 1, Len(k)))

DocExpr(k) ==
    \/ DocSum(k)
    \/ Len(k) >= 2 /\ k[1] = "MINUS" /\ DocSum(Tail(k))

PowerThenMinus(k) == {i \in 1..(Len(k) - 1) : k[i] = "POWER" /\ k[i + 1] = "MINUS"}

(***************************************************************************)
(* C15.  A '^' immediately followed by '-' is a parse error: no tree is    *)
(* returned, and on "x^-2" the error is the one _parse_primary raises at   *)
(* the minus, with the cursor left on it.                                  *)
(***************************************************************************)
C15_NegativeExponent ==
    (ParseEnded /\ PowerThenMinus(Kinds) # {}) =>
        /\ parseState = "error"
        /\ ast = Object
        /\ Kinds = <<"VARIABLE", "POWER", "MINUS", "NUMBER">> =>
               /\ parseError = UnexpectedTokenInPrimary(parserTokens[3])
               /\ parserPos = 2

\* "x^-2" was given and rejected
C15_Witness ==
    /\ parseState = "error"
    /\ Kinds = <<"VARIABLE", "POWER", "MINUS", "NUMBER">>
    /\ parseError.kind = "unexpected_token_in_primary"
    /\ parseError.what = "MINUS"

\* the number of tokens a tree was built from, parentheses not counted: one
\* per leaf, operator and function name; the 0 of a leading minus is no token
RECURSIVE TokensOf(_)
TokensOf(node) ==
    CASE node.kind = "BinOp" ->
             IF node.left = Number(0) /\ node.op = "-"
             THEN 1 + TokensOf(node.right)
             ELSE TokensOf(node.left) + 1 + TokensOf(node.right)
      [] node.kind = "UnaryOp" -> 1 + TokensOf(node.operand)
      [] node.kind = "FunctionCall" -> 1 + TokensOf(node.arg)
      [] node.kind \in {"Number", "Variable"} -> 1
      [] OTHER -> 0

\* the number of tokens of kind t in k
CountOf(k, t) == Cardinality({i \in 1..Len(k) : k[i] = t})

(***************************************************************************)
(* C16.  parse succeeds only if one complete expression consumes every     *)
(* token up to EOF: then the cursor is on EOF and every token is part of   *)
(* the tree.  A leftover token (an extra ')', a second number), an         *)
(* unclosed '(', "()", "sin()" and the empty input are parse errors, and   *)
(* an error returns no tree.                                               *)
(***************************************************************************)
C16_WholeInput ==
    ParseEnded =>
        /\ parseState = "done" =>
               /\ parserPos = Len(parserTokens) - 1
               /\ CurrentToken(parserTokens, parserPos).type = "EOF"
               /\ ast # Object
               /\ CountOf(Kinds, "LPAREN") = CountOf(Kinds, "RPAREN")
               /\ TokensOf(ast) + 2 * CountOf(Kinds, "LPAREN") = Len(Kinds)
        /\ parseState = "error" => (ast = Object /\ parseError # NoError)
        /\ Kinds \in {<<>>, <<"LPAREN", "RPAREN">>, <<"FUNCTION", "LPAREN", "RPAREN">>,
                      <<"LPAREN", "VARIABLE">>, <<"VARIABLE", "RPAREN">>,
                      <<"NUMBER", "NUMBER">>} => parseState = "error"
        /\ Kinds = <<"NUMBER", "NUMBER">> =>
               (parseError = UnexpectedToken(parserTokens[2]) /\ parserPos = 1)
        /\ Kinds = <<"LPAREN", "VARIABLE">> =>
               parseError = ExpectedGot("RPAREN", parserTokens[3])

\* a complete expression followed by a leftover ')'
C16_Witness ==
    /\ parseState = "error"
    /\ Kinds = <<"VARIABLE", "PLUS", "NUMBER", "RPAREN">>
    /\ parseError = UnexpectedToken(parserTokens[4])
    /\ parserPos = 3
    /\ ast = Object

\* the tokens given to the parser as they are written, EOF left out
Values ==
    [i \in 1..(Len(parserTokens) - 1) |->
        IF parserTokens[i].type = "NUMBER" THEN StrOfNat(parserTokens[i].value[2])
                                           ELSE parserTokens[i].value[2]]

\* the leaves and operators of a tree from left to right; the 0 of a leading
\* minus is not written
RECURSIVE Yield(_)
Yield(node) ==
    CASE node.kind = "Number" -> <<StrOfNat(node.value)>>
      [] node.kind = "Variable" -> <<node.name>>
      [] node.kind = "BinOp" ->
             IF node.left = Number(0) /\ node.op = "-"
             THEN <<"-">> \o Yield(node.right)
             ELSE Yield(node.left) \o <<node.op>> \o Yield(node.right)
      [] node.kind = "UnaryOp" -> <<node.op>> \o Yield(node.operand)
      [] node.kind = "FunctionCall" -> <<node.func_name>> \o Yield(node.arg)

\* how tightly the root of a tree binds: sum 1, unary minus 2, product 3,
\* power 4, leaf or function call 5
Level(node) ==
    CASE node.kind = "BinOp" /\ node.op \in {"+", "-"} -> 1
      [] node.kind = "UnaryOp" -> 2
      [] node.kind = "BinOp" /\ node.op \in {"*", "/"} -> 3
      [] node.kind = "BinOp" /\ node.op = "^" -> 4
      [] OTHER -> 5

\* every operand binds at least as tightly as its place requires: the left
\* operand of '+', '-', '*', '/' may be of the same level (left-associative),
\* the right operand of '^' may be a power (right-associative)
RECURSIVE Climbs(_)
Climbs(node) ==
    CASE node.kind = "BinOp" /\ node.op \in {"+", "-"} ->
             Level(node.right) >= 2 /\ Climbs(node.left) /\ Climbs(node.right)
      [] node.kind = "UnaryOp" ->
             Level(node.operand) >= 3 /\ Climbs(node.operand)
      [] node.kind = "BinOp" /\ node.op \in {"*", "/"} ->
             /\ Level(node.left) >= 3
             /\ Level(node.right) >= 4
             /\ Climbs(node.left) /\ Climbs(node.right)
      [] node.kind = "BinOp" /\ node.op = "^" ->
             /\ Level(node.left) >= 5
             /\ Level(node.right) >= 4
             /\ Climbs(node.left) /\ Climbs(node.right)
      [] node.kind = "FunctionCall" -> Climbs(node.arg)
      [] OTHER -> TRUE

(***************************************************************************)
(* C17.  Precedence, lowest to highest, is addition/subtraction, unary     *)
(* minus, multiplication/division, exponentiation; '+', '-', '*', '/' are  *)
(* left-associative and '^' is right-associative.  For a token list        *)
(* without parentheses the tree reads as the list from left to right and   *)
(* every operand binds as tightly as its place requires; so x+y+2 is       *)
(* (x+y)+2, x*y*2 is (x*y)*2, x^2^y is x^(2^y), x+y*2 is x+(y*2), 2*x^2    *)
(* is 2*(x^2), and a minus negates the whole product or power after it.    *)
(***************************************************************************)
C17_Precedence ==
    ParseEnded =>
        /\ parseState = "done" => (Yield(ast) = Values /\ Climbs(ast))
        /\ Values = <<"x", "+", "y", "+", "2">> =>
               ast = BinOp(BinOp(Variable("x"), "+", Variable("y")), "+", Number(2))
        /\ Values = <<"x", "/", "y", "*", "2">> =>
               ast = BinOp(BinOp(Variable("x"), "/", Variable("y")), "*", Number(2))
        /\ Values = <<"x", "^", "2", "^", "y">> =>
               ast = BinOp(Variable("x"), "^", BinOp(Number(2), "^", Variable("y")))
        /\ Values = <<"x", "+", "y", "*", "2">> =>
               ast = BinOp(Variable("x"), "+", BinOp(Variable("y"), "*", Number(2)))
        /\ Values = <<"2", "*", "x", "^", "2">> =>
               ast = BinOp(Number(2), "*", BinOp(Variable("x"), "^", Number(2)))
        /\ Values = <<"-", "x", "^", "2">> =>
               ast = BinOp(Number(0), "-", BinOp(Variable("x"), "^", Number(2)))
        /\ Values = <<"-", "x", "*", "y">> =>
               ast = BinOp(Number(0), "-", BinOp(Variable("x"), "*", Variable("y")))
        /\ Values = <<"2", "-", "-", "x", "*", "y">> =>
               ast = BinOp(Number(2), "-",
                           UnaryOp("-", BinOp(Variable("x"), "*", Variable("y"))))

\* "x-y^2": a subtraction whose right operand is a power
C17_Witness ==
    /\ parseState = "done"
    /\ Values = <<"x", "-", "y", "^", "2">>
    /\ ast = BinOp(Variable("x"), "-", BinOp(Variable("y"), "^", Number(2)))

\* the token list with '*' written at every implicit multiplication
Explicit(toks) ==
    [i \in 1..Len(toks) |->
        IF toks[i].type = "IMPLICIT_MULTIPLY"
        THEN Token("MULTIPLY", PyStr("*"), toks[i].pos)
        ELSE toks[i]]

\* the parse at hand ended as the parse r of the explicit list did, with a
\* tree that are_equivalent finds equivalent to that of r
AsExplicit(r) ==
    /\ r.raised <=> parseState = "error"
    /\ r.node = ast
    /\ ~r.raised =>
           /\ ~AreEquivalent(ast, r.node).raised
           /\ AreEquivalent(ast, r.node).value

\* what the tree keeps of an operator: no node carries the implicit kind
RECURSIVE Operators(_)
Operators(node) ==
    CASE node.kind = "BinOp" -> {node.op} \cup Operators(node.left) \cup Operators(node.right)
      [] node.kind = "UnaryOp" -> {node.op} \cup Operators(node.operand)
      [] node.kind = "FunctionCall" -> Operators(node.arg)
      [] OTHER -> {}

(***************************************************************************)
(* C18.  Implicit multiplication parses as the explicit '*' written at     *)
(* the same place: the token list with IMPLICIT_MULTIPLY and the list      *)
(* with MULTIPLY in its place are both rejected or give the same tree,     *)
(* whose operators are among + - * / ^, and are_equivalent of the two      *)
(* trees is true ("2x" and "2*x").                                         *)
(***************************************************************************)
C18_ImplicitAsExplicit ==
    ParseEnded =>
        /\ \A r \in {ParserParse(Explicit(parserTokens))} : AsExplicit(r)
        /\ parseState = "done" => Operators(ast) \subseteq {"+", "-", "*", "/", "^"}
        /\ Kinds = <<"NUMBER", "IMPLICIT_MULTIPLY", "VARIABLE">> =>
               ast = BinOp(Number(2), "*", Variable(parserTokens[3].value[2]))

\* "2 sin x": the implicit product of 2 and a function call
C18_Witness ==
    /\ parseState = "done"
    /\ Kinds = <<"NUMBER", "IMPLICIT_MULTIPLY", "FUNCTION", "VARIABLE">>
    /\ ast = BinOp(Number(2), "*", FunctionCall("sin", Variable("x")))

\* the kinds a primary starts with
PrimaryStart == {"NUMBER", "VARIABLE", "LPAREN"}

\* the FUNCTION tokens not followed by the start of a primary
BareFunctions(k) ==
    {i \in 1..Len(k) : k[i] = "FUNCTION" /\ (i = Len(k) \/ k[i + 1] \notin PrimaryStart)}

\* the FUNCTION tokens followed by a number or a variable
FunctionsOfLeaf(k) ==
    {i \in 1..(Len(k) - 1) : k[i] = "FUNCTION" /\ k[i + 1] \in {"NUMBER", "VARIABLE"}}

\* the number of FunctionCall nodes of a tree
RECURSIVE Calls(_)
Calls(node) ==
    CASE node.kind = "BinOp" -> Calls(node.left) + Calls(node.right)
      [] node.kind = "UnaryOp" -> Calls(node.operand)
      [] node.kind = "FunctionCall" -> 1 + Calls(node.arg)
      [] OTHER -> 0

\* the number of FunctionCall nodes whose argument is a number or a variable
RECURSIVE CallsOfLeaf(_)
CallsOfLeaf(node) ==
    CASE node.kind = "BinOp" -> CallsOfLeaf(node.left) + CallsOfLeaf(node.right)
      [] node.kind = "UnaryOp" -> CallsOfLeaf(node.operand)
      [] node.kind = "FunctionCall" ->
             (IF node.arg.kind \in {"Number", "Variable"} THEN 1 ELSE 0)
             + CallsOfLeaf(node.arg)
      [] OTHER -> 0

(***************************************************************************)
(* C19.  A FUNCTION token takes exactly one primary as its argument: a     *)
(* function name before a number or a variable gives a call of that leaf   *)
(* alone, so "sin x+y" is sin(x)+y and "sin x^2" is sin(x)^2; a FUNCTION   *)
(* followed by another FUNCTION, an operator, ')' or EOF is a parse error. *)
(***************************************************************************)
C19_FunctionArgument ==
    ParseEnded =>
        /\ BareFunctions(Kinds) # {} => parseState = "error"
        /\ parseState = "done" =>
               /\ Calls(ast) = CountOf(Kinds, "FUNCTION")
               /\ CallsOfLeaf(ast) >= Cardinality(FunctionsOfLeaf(Kinds))
        /\ Values = <<"sin", "x", "+", "y">> =>
               ast = BinOp(FunctionCall("sin", Variable("x")), "+", Variable("y"))
        /\ Values = <<"sin", "x", "^", "2">> =>
               ast = BinOp(FunctionCall("sin", Variable("x")), "^", Number(2))
        /\ Kinds = <<"FUNCTION">> =>
               parseError = UnexpectedTokenInPrimary(parserTokens[2])
        /\ Kinds = <<"FUNCTION", "FUNCTION", "VARIABLE">> =>
               parseError = UnexpectedTokenInPrimary(parserTokens[2])

\* "sin x*y": the call takes x and the product takes the call
C19_Witness ==
    /\ parseState = "done"
    /\ Values = <<"sin", "x", "*", "y">>
    /\ Kinds[3] = "IMPLICIT_MULTIPLY"
    /\ ast = BinOp(FunctionCall("sin", Variable("x")), "*", Variable("y"))

\* a power node with the literal exponent 2 or 3
SmallLiteralPower(node) ==
    /\ node.kind = "BinOp" /\ node.op = "^"
    /\ node.right.kind = "Number"
    /\ node.right.value \in {2, 3}

(***************************************************************************)
(* C20.  normalize_expression expands a power only when the exponent is    *)
(* the literal 2 or 3 and the base is expandable, by multiplying the       *)
(* normalized base by itself; every other power node, sin(x)^2, (x/y)^2    *)
(* and (x^2)^2 included, becomes one atom monomial with coefficient 1.     *)
(* Violated: expand_to_polynomial does not test the base, so sin(x)^2      *)
(* becomes the atom sin(x) to the power 2.                                 *)
(***************************************************************************)
C20_PowerExpansion ==
    (call = "normalize_expression" /\ expr1.kind = "BinOp" /\ expr1.op = "^") =>
        /\ ~result.raised
        /\ result.terms =
               IF SmallLiteralPower(expr1) /\ IsExpandable(expr1.left)
               THEN PowerByMultiplication(NormalizeExpression(expr1.left).terms,
                                          expr1.right.value)
               ELSE AtomPolynomial(expr1)

(***************************************************************************)
(* C21: the normalized polynomial is a canonical form of the expandable    *)
(* fragment.                                                               *)
(***************************************************************************)
\* the value of an expandable expression over the integers
RECURSIVE IntEval(_, _)
IntEval(node, env) ==
    CASE node.kind = "Number" -> node.value
      [] node.kind = "Variable" -> env[node.name]
      [] node.kind = "UnaryOp" -> -IntEval(node.operand, env)
      [] node.kind = "BinOp" ->
            LET l == IntEval(node.left, env)
                r == IntEval(node.right, env)
            IN  CASE node.op = "+" -> l + r
                  [] node.op = "-" -> l - r
                  [] node.op = "*" -> l * r
                  [] node.op = "^" -> IntPow(l, r)

\* the expressions have degree at most three in each variable, so two of
\* them are the same polynomial iff they agree on four values of each
Grid == [VarNames -> 0..3]

SamePolynomial(a, b) == \A env \in Grid : IntEval(a, env) = IntEval(b, env)

SameNormalForm(a, b) ==
    LET na == NormalizeExpression(a)
        nb == NormalizeExpression(b)
    IN  ~na.raised /\ ~nb.raised /\ PolyEq(na.terms, nb.terms)

\* C21: for expandable a and b, normalize(a) == normalize(b) iff a and b
\* are the same integer polynomial, and are_equivalent(a, b) says the same
C21_CanonicalForm ==
    call = "are_equivalent" =>
        \E same \in {SamePolynomial(expr1, expr2)} :
            /\ ~result.raised
            /\ result.value <=> same
            /\ SameNormalForm(expr1, expr2) <=> same

\* the square of x+1 and its expansion have been found equivalent
C21_Witness ==
    /\ call = "are_equivalent"
    /\ expr1 = BinOp(BinOp(Variable("x"), "+", Number(1)), "^", Number(2))
    /\ expr2 \in Squares /\ expr2 # expr1
    /\ result.value

(***************************************************************************)
(* C22: the rational form and the comparison of the cross products.        *)
(***************************************************************************)
\* the documented rewriting: a/b + c/d -> (a*d + c*b)/(b*d),
\* a/b - c/d -> (a*d - c*b)/(b*d), (a/b)*(c/d) -> (a*c)/(b*d),
\* (a/b)/(c/d) -> (a*d)/(b*c), the sign of a negated fraction on its
\* numerator, anything else over Number(1)
RECURSIVE RationalForm(_)
RationalForm(node) ==
    IF node.kind = "BinOp" /\ node.op \in {"+", "-", "*", "/"}
    THEN LET ab == RationalForm(node.left)
             cd == RationalForm(node.right)
             a == ab[1]
             b == ab[2]
             c == cd[1]
             d == cd[2]
         IN  CASE node.op = "+" ->
                    <<BinOp(BinOp(a, "*", d), "+", BinOp(c, "*", b)), BinOp(b, "*", d)>>
               [] node.op = "-" ->
                    <<BinOp(BinOp(a, "*", d), "-", BinOp(c, "*", b)), BinOp(b, "*", d)>>
               [] node.op = "*" -> <<BinOp(a, "*", c), BinOp(b, "*", d)>>
               [] node.op = "/" -> <<BinOp(a, "*", d), BinOp(b, "*", c)>>
    ELSE IF node.kind = "UnaryOp"
         THEN LET ab == RationalForm(node.operand)
              IN  <<UnaryOp("-", ab[1]), ab[2]>>
         ELSE <<node, Number(1)>>

IsRationalForm(node, r) == ~r.raised /\ <<r.num, r.den>> = RationalForm(node)

\* normalize(num1*den2) == normalize(num2*den1)
CrossProductsEqual(f1, f2) ==
    SameNormalForm(BinOp(f1[1], "*", f2[2]), BinOp(f2[1], "*", f1[2]))

EarlierStageProved(a, b) == TryPolynomial(a, b).proved \/ AstEqual(a, b).value

RationalExamples ==
    {<<BinOp(Number(1), "-", BinOp(Number(1), "/", v)), BinOp(BinOp(v, "-", Number(1)), "/", v)>> :
         v \in VarLeaves}
    \cup {<<BinOp(v, "/", v), Number(1)>> : v \in VarLeaves}

\* C22: simplify_to_rational gives the documented numerator and
\* denominator; are_equivalent returns True whenever the cross products
\* normalize to equal Polynomials, and the rational stage proves nothing
\* else; 1-1/x and (x-1)/x, x/x and 1 are equivalent
C22_RationalStage ==
    call = "are_equivalent" =>
        \E cross \in {CrossProductsEqual(RationalForm(expr1), RationalForm(expr2))} :
            /\ IsRationalForm(expr1, SimplifyToRational(expr1))
            /\ IsRationalForm(expr2, SimplifyToRational(expr2))
            /\ ~result.raised
            /\ cross => result.value
            /\ result.value /\ ~EarlierStageProved(expr1, expr2) => cross
            /\ <<expr1, expr2>> \in RationalExamples => result.value

\* 1-1/x and (x-1)/x were found equivalent, by the cross products only
C22_Witness ==
    /\ call = "are_equivalent"
    /\ expr1 = BinOp(Number(1), "-", BinOp(Number(1), "/", Variable("x")))
    /\ expr2 = BinOp(BinOp(Variable("x"), "-", Number(1)), "/", Variable("x"))
    /\ result.value
    /\ ~EarlierStageProved(expr1, expr2)

(***************************************************************************)
(* C23: the structural comparison.                                         *)
(***************************************************************************)
\* a and b have the same kind and operator at each level, with the operands
\* of + and * in either order; `shortcut` says where equal normalized
\* polynomials are accepted in place of it: "everywhere", or "arguments"
\* for the arguments of function calls only
RECURSIVE SameShape(_, _, _)
SameShape(a, b, shortcut) ==
    \/ shortcut = "everywhere" /\ SameNormalForm(a, b)
    \/ /\ a.kind = b.kind
       /\ CASE a.kind = "Number" -> a.value = b.value
            [] a.kind = "Variable" -> a.name = b.name
            [] a.kind = "UnaryOp" -> a.op = b.op /\ SameShape(a.operand, b.operand, shortcut)
            [] a.kind = "BinOp" ->
                  /\ a.op = b.op
                  /\ \/ /\ SameShape(a.left, b.left, shortcut)
                        /\ SameShape(a.right, b.right, shortcut)
                     \/ /\ a.op \in {"+", "*"}
                        /\ SameShape(a.left, b.right, shortcut)
                        /\ SameShape(a.right, b.left, shortcut)
            [] a.kind = "FunctionCall" ->
                  /\ a.func_name = b.func_name
                  /\ \/ SameNormalForm(a.arg, b.arg)
                     \/ SameShape(a.arg, b.arg, shortcut)
            [] OTHER -> FALSE

\* b is a with the operands of its root exchanged
Exchanged(a, b) ==
    /\ a.kind = "BinOp" /\ b.kind = "BinOp" /\ a.op = b.op
    /\ a.left = b.right /\ a.right = b.left

FunctionOf(op, l, r) == FunctionCall("sin", BinOp(Variable(l), op, Variable(r)))

\* as stated: ast_equal holds exactly for nodes of the same kind and
\* operator at each level, polynomials being compared for arguments only
C23_SameKindAtEachLevel ==
    call = "are_equivalent" =>
        (AstEqual(expr1, expr2).value <=> SameShape(expr1, expr2, "arguments"))

\* C23: ast_equal holds exactly when the two nodes normalize to equal
\* polynomials or have the same kind and operator with ast_equal operands,
\* swapped for + and * only; so a difference, quotient or power is not
\* equal to its exchange unless the polynomials are, sin(x+y) and sin(y+x)
\* are equivalent, sin(x-y) and sin(y-x) are not
C23_StructuralComparison ==
    call = "are_equivalent" =>
        \E eq \in {AstEqual(expr1, expr2)} :
            /\ ~eq.raised
            /\ eq.value <=> SameShape(expr1, expr2, "everywhere")
            /\ (Exchanged(expr1, expr2) /\ expr1.op \in {"-", "/", "^"} /\ eq.value)
                   => SameNormalForm(expr1, expr2)
            /\ (expr1 = FunctionOf("+", "x", "y") /\ expr2 = FunctionOf("+", "y", "x"))
                   => result.value
            /\ (expr1 = FunctionOf("-", "x", "y") /\ expr2 = FunctionOf("-", "y", "x"))
                   => ~result.value

\* sin(x+y) and sin(y+x) were found equivalent though their normalized
\* polynomials differ
C23_Witness ==
    /\ call = "are_equivalent"
    /\ expr1 = FunctionOf("+", "x", "y") /\ expr2 = FunctionOf("+", "y", "x")
    /\ result.value
    /\ ~SameNormalForm(expr1, expr2)

(***************************************************************************)
(* C24: the counter of AtomicExpr.                                         *)
(***************************************************************************)
DistinctIds == \A i \in DOMAIN made : \A j \in DOMAIN made : i # j => made[i].id # made[j].id

\* the objects of before are the first objects of after
Extends(after, before) ==
    Len(after) >= Len(before) /\ SubSeq(after, 1, Len(before)) = before

\* C24: after any sequence of calls the counter has grown from zero by the
\* number of AtomicExpr objects constructed, no two of which have the same
\* id, and no call decrements or resets it
C24_MonotonicCounter ==
    /\ [](counter = Len(made) /\ DistinctIds)
    /\ [][/\ counter' >= counter
          /\ Extends(made', made)
          /\ counter' - counter = Len(made') - Len(made)]_vars

\* a third call that constructed objects, after calls that had
C24_Witness ==
    /\ calls = 3
    /\ counter > 4
    /\ \E i \in DOMAIN made : \E j \in DOMAIN made : i < j /\ made[i].expr_str = made[j].expr_str

(***************************************************************************)
(* C25: the ids have no bearing on results.                                *)
(***************************************************************************)
SameString(a, b) == a.expr_str = b.expr_str

ValueOf(op, h, args) ==
    CASE op = "add" -> PolyAdd(TermsOf(h, args[1]), TermsOf(h, args[2]))
      [] op = "sub" -> PolySub(TermsOf(h, args[1]), TermsOf(h, args[2]))
      [] op = "mul" -> PolyMul(TermsOf(h, args[1]), TermsOf(h, args[2]))
      [] op = "neg" -> PolyNeg(TermsOf(h, args[1]))

\* C26: p + q, p - q, p * q and -p return a new Polynomial, whose dict no
\* other object refers to, and leave every object and every dict there was
\* as it was, p and q being the same object or not
C26_OperandsUnchanged ==
    [][/\ Len(heap'.polys) = Len(heap.polys) + 1
       /\ \A i \in DOMAIN heap.polys :
              /\ heap'.polys[i] = heap.polys[i]
              /\ TermsOf(heap', i) = TermsOf(heap, i)
              /\ heap'.polys[Len(heap'.polys)] # heap.polys[i]
       /\ \A a \in DOMAIN heap.dicts : heap'.dicts[a] = heap.dicts[a]
       /\ poly' = ValueOf(lastOp', heap, operands')]_vars

\* a product of an object with itself, and a sum of that product with itself
C26_Witness ==
    /\ steps = 2
    /\ lastOp = "add"
    /\ operands = <<3, 3>>
    /\ TermsOf(heap, 1) # EmptyTerms
    /\ TermsOf(heap, 3) = PolyMul(TermsOf(heap, 1), TermsOf(heap, 1))
    /\ TermsOf(heap, 4) = PolyAdd(TermsOf(heap, 3), TermsOf(heap, 3))

(***************************************************************************)
(* C27: the monomial keys.                                                 *)
(***************************************************************************)
SymbolsOf(m) == {sp[1] : sp \in m}

\* the power of symbol v in monomial m, 0 if v is not in it
PowerOfIn(v, m) ==
    IF v \in SymbolsOf(m) THEN (CHOOSE sp \in m : sp[1] = v)[2] ELSE 0

\* one pair for each symbol, each power at least 1
WellFormedMonomial(m) ==
    /\ \A sp \in m : sp[2] \in Nat /\ sp[2] >= 1
    /\ \A sp \in m : \A sq \in m : sp[1] = sq[1] => sp = sq

\* m holds the symbols of m1 and m2, the powers of a shared symbol added
IsProductOf(m, m1, m2) ==
    /\ SymbolsOf(m) = SymbolsOf(m1) \cup SymbolsOf(m2)
    /\ \A sp \in m : sp[2] = PowerOfIn(sp[1], m1) + PowerOfIn(sp[1], m2)

SinX == NormalizeExpression(FunctionCall("sin", Variable("x"))).terms

\* C27: the keys of every Polynomial made by the normalizer or by
\* arithmetic on its results are well formed; the keys of a product are
\* products of a key of each operand; sin(x)*sin(x) has the one key
\* {(sin(x), 2)}
C27_MonomialKeys ==
    /\ \A i \in DOMAIN heap.polys : \A m \in DOMAIN TermsOf(heap, i) : WellFormedMonomial(m)
    /\ lastOp = "mul" =>
           /\ \A m \in DOMAIN poly :
                  \E m1 \in DOMAIN TermsOf(heap, operands[1]) :
                  \E m2 \in DOMAIN TermsOf(heap, operands[2]) : IsProductOf(m, m1, m2)
           /\ (TermsOf(heap, operands[1]) = SinX /\ TermsOf(heap, operands[2]) = SinX)
                  => DOMAIN poly = {{<<AtomSymbol("sin(x)"), 2>>}}

\* sin(x) times sin(x), two objects with the same string
C27_Witness ==
    /\ lastOp = "mul"
    /\ operands = <<1, 2>>
    /\ TermsOf(heap, 1) = SinX /\ TermsOf(heap, 2) = SinX
    /\ poly = [m \in {{<<AtomSymbol("sin(x)"), 2>>}} |-> 1]

(***************************************************************************)
(* C28: tokenize and parse terminate.                                      *)
(***************************************************************************)
\* the index of the EOF token
EOFIndex(toks) == Len(toks) - 1

\* the parser is in the body of one of its loops, having found an operator
InLoop ==
    /\ parseState = "parsing"
    /\ Len(frames) >= 2
    /\ frames[2].rule \in {"expression", "term"}
    /\ frames[2].at = "next"

\* the step taken is the start of _parse_primary
PrimaryDescent == Top("primary") /\ Head(frames).at = "start"

\* the parser stopped where Parser.parse, run as a whole, stops
StepsAgree ==
    parseState \in {"done", "error"} =>
        \E r \in {ParserParse(parserTokens)} :
            /\ parseState = (IF r.raised THEN "error" ELSE "done")
            /\ ast = r.node
            /\ parserPos = r.pos
            /\ parseError = r.error

\* the cursor is at or before EOF, and on EOF when parse has returned
CursorWithinTokens ==
    parseState # "idle" =>
        /\ parserPos <= EOFIndex(parserTokens)
        /\ parseState = "done" => parserPos = EOFIndex(parserTokens)

Ended == lexState = "error" \/ parseState \in {"done", "error"}

\* C28: a pass of the scan loop moves the position forward, and the loop
\* ends by a raise or at the end of the text; a pass of a loop of the
\* parser and a descent to a primary consume a token or raise; the cursor
\* never goes back, stays at or before EOF and is on EOF when parse
\* returns; every run ends, by a return or by an error
C28_Termination ==
    /\ [][lexState = "scan" => (pos' > pos \/ lexState' \in {"error", "done"})]_vars
    /\ [][(Top("expression") \/ Top("term")) /\ InLoop' /\ Len(frames') > Len(frames)
              => parserPos' > parserPos]_vars
    /\ [][PrimaryDescent => (parserPos' > parserPos \/ parseState' = "error")]_vars
    /\ [][parseState # "idle" => parserPos' >= parserPos]_vars
    /\ []CursorWithinTokens
    /\ <>Ended

\* a text was tokenized and parsed through a pass of a loop and a
\* parenthesis, the cursor on the EOF token
C28_Witness ==
    /\ lexState = "done"
    /\ parseState = "done"
    /\ Len(output) > Len(expression)
    /\ ast.kind = "BinOp"
    /\ ast.right.kind = "BinOp"
    /\ parserPos = EOFIndex(parserTokens)

(***************************************************************************)
(* C29: the canonical string of two different trees.  Violated:            *)
(* needs_parens gives no parentheses to a right operand of the precedence  *)
(* of its parent, so x/(y/x) and (x/y)/x are both "x/y/x" and x-(y-x) and  *)
(* (x-y)-x are both "x-y-x".                                               *)
(***************************************************************************)
\* C29: two expressions built by the parser that are not the same tree
\* have different canonical strings
C29_DistinctStrings ==
    (call = "are_equivalent" /\ expr1 # expr2)
        => AstToString(expr1, "") # AstToString(expr2, "")

(***************************************************************************)
(* C30: a zero denominator in the rational stage.  Violated: with the      *)
(* denominator 1*0 the cross products of x/0 and y/0 are both the zero     *)
(* polynomial, and are_equivalent returns True.                            *)
(***************************************************************************)
\* the denominator simplify_to_rational builds for node normalizes to the
\* empty Polynomial
ZeroDenominator(node) ==
    \E r \in {SimplifyToRational(node)} :
        /\ ~r.raised
        /\ \E den \in {NormalizeExpression(r.den)} : ~den.raised /\ den.terms = EmptyTerms

\* C30: when the denominator built for either expression is the zero
\* polynomial, are_equivalent returns True only if the polynomial stage or
\* the structural stage proved the two equivalent
C30_ZeroDenominator ==
    (/\ call = "are_equivalent"
     /\ ~result.raised
     /\ result.value
     /\ ZeroDenominator(expr1) \/ ZeroDenominator(expr2))
        => EarlierStageProved(expr1, expr2)

====
